---- MODULE Spec2Model ----
(***************************************************************************)
(* A model of the coolbeans rule engine (coolbeans/rule.py) and of the     *)
(* BeanOrganizer merge/de-duplication engine (coolbeans/organizer.py and   *)
(* its older sibling coolbeans/merge.py).                                  *)
(***************************************************************************)
EXTENDS Integers, Sequences, FiniteSets, TLC

VARIABLES
    module,       \* which BeanOrganizer class is running: "organizer" | "merge"
    entries,      \* BeanOrganizer.entries: the working collection (a list)
    duplicates,   \* BeanOrganizer.duplicates: match-key -> entry
    input,        \* add_file: the entries the loader has handed over so far, in load order
    pc,           \* rule engine: "start" | "failed" | "compiled" | "checked" | "modified"
    rule_dict,    \* the raw mapping given to Rule(...)
    rule_obj,     \* the Rule: match_requirements and set_rules, or the exception raised
    tx_entry,     \* the entry given to Rule.check and Rule.modify_entry
    check_result, \* what Rule.check returned
    result,       \* what Rule.modify_entry returned
    ext_call,     \* the last MatchRule.extend call: receiver, argument, outcome
    md_pc,        \* match_directives: "start" | "failed" | "loop" | "rules" | "raised" | "done"
    md_rules,     \* match_directives: the Rules built from the rules files, in file order
    md_entries,   \* match_directives: the entries list it was given
    md_i,         \* match_directives: position of the outer loop in md_entries
    md_cur,       \* match_directives: locals of the rule loop (entry, next rule, modified)
    new_entries,  \* match_directives: the list it returns
    mod_entries,  \* match_directives: the rewritten entries it prints to the output file
    sort_method,  \* BeanOrganizer.sort_method: "date" | "account"
    yielded,      \* what sorted_entries yielded, or the exception it raised
    md_first,     \* match_directives: the pass number and what the first pass returned
    old_date,     \* DateFoldStreamProxy.old_date
    stream,       \* DateFoldStreamProxy.stream: what has been written to it
    writes,       \* the contents given to DateFoldStreamProxy.write so far
    split_type,   \* BeanOrganizer.split_type: "account" | "date"
    saved         \* what save_entries did: printed entries, streams, outcome

merge_vars == <<module, entries, duplicates, input>>
rule_vars == <<pc, rule_dict, rule_obj, tx_entry, check_result, result, ext_call>>
md_vars == <<md_pc, md_rules, md_entries, md_i, md_cur, new_entries, mod_entries, md_first>>
sort_vars == <<sort_method, yielded>>
fold_vars == <<old_date, stream, writes>>
save_vars == <<split_type, saved>>
vars == <<module, entries, duplicates, input,
          pc, rule_dict, rule_obj, tx_entry, check_result, result, ext_call,
          md_pc, md_rules, md_entries, md_i, md_cur, new_entries, mod_entries,
          sort_method, yielded, md_first, old_date, stream, writes, split_type, saved>>

(***************************************************************************)
(* Bounds                                                                  *)
(***************************************************************************)
\* how many entries the loader hands to the merge engine in one run
MaxLoaded == 3

(***************************************************************************)
(* Ledger entries as the merge engine sees them                            *)
(***************************************************************************)
None == "None"

\* explicit match-key values found in entry metadata
MatchKeys == {"k1", "k2"}

\* the (match-key, match-key-1) pairs an entry may carry
KeyChoices ==
    { <<None, None>> } \cup
    { <<k, None>> : k \in MatchKeys } \cup
    { kk \in MatchKeys \X MatchKeys : kk[1] # kk[2] }

\* the value stored under '_account': an account name (a str) or, by the
\* for/else fallback, a Posting object
AccountName(a) == [is_str |-> TRUE, account |-> a]
PostingObject(a) == [is_str |-> FALSE, account |-> a]

\* '_account' not in entry.meta
NoAccount == AccountName(None)

\* An entry as load_file returns it.  id stands for the (filename, lineno)
\* metadata that makes two loaded entries distinct values.
\* date is a day number; text is the narration of a Transaction or the
\* comment of a Note; global_sort and sort are the metadata hints and price
\* the price of the first posting, each <<>> when absent and <<n>> when set.
NewEntry(id, type, flag, keys, postings) ==
    [ id |-> id, type |-> type, flag |-> flag,
      mk |-> keys[1], mk1 |-> keys[2],
      postings |-> postings, account |-> NoAccount,
      date |-> 1, text |-> "", global_sort |-> <<>>, sort |-> <<>>, price |-> <<>> ]

\* no entry (before the first call)
NoEntry == NewEntry(0, "None", None, <<None, None>>, <<>>)

\* What the loader may hand over as its next entry: pending and confirmed
\* transactions with every key pair, the same without a balance-sheet
\* posting, computed ('P') transactions, and the flagless directives, with
\* and without an account attribute.
LoadedEntries(id) ==
    { NewEntry(id, "Transaction", f, kk, <<"Assets:Bank", "Expenses:Food">>) :
        f \in {"!", "*"}, kk \in KeyChoices } \cup
    { NewEntry(id, "Transaction", f, <<k, None>>, <<"Expenses:Food", "Income:Job">>) :
        f \in {"!", "*"}, k \in {None, "k1"} } \cup
    { NewEntry(id, "Transaction", "P", <<k, None>>, <<"Assets:Bank", "Expenses:Food">>) :
        k \in {None, "k1"} } \cup
    { NewEntry(id, t, None, <<None, None>>, <<>>) : t \in {"Open", "Document"} } \cup
    { NewEntry(id, "Note", None, <<k, None>>, <<>>) : k \in {None, "k1"} } \cup
    { NewEntry(id, "Event", None, <<None, None>>, <<>>) }

\* hasattr(entry, 'flag')
HasFlag(e) == e.type = "Transaction"

\* hasattr(entry, 'account'): Note, Open and Document name an account, an
\* Event does not; EntryAccount is the account they name
HasAccount(e) == e.type \in {"Note", "Open", "Document"}
EntryAccount == "Assets:Bank"

\* printer.format_entry(entry): the rendered text, which does not show
\* filename/lineno, so it is a function of the content only
format_entry(e) ==
    [ explicit |-> None,
      text |-> <<e.type, e.flag, e.mk, e.mk1, e.postings,
                 e.date, e.text, e.global_sort, e.sort, e.price>> ]

\* a match-key read from the metadata, as a key of the duplicate index
ExplicitKey(k) == [explicit |-> k, text |-> <<>>]

\* meta.get(...) found nothing
NoKey == [explicit |-> None, text |-> <<>>]

\* entry.meta.get('match-key') for count = 0, entry.meta.get(f'match-key-{count}') after
MetaMatchKey(e, count) ==
    LET k == IF count = 0 THEN e.mk ELSE IF count = 1 THEN e.mk1 ELSE None
    IN  IF k = None THEN NoKey ELSE ExplicitKey(k)

\* account.split(name)[0] for the account names in use
AccountRoot(a) ==
    IF a \in {"Assets:Bank"} THEN "Assets"
    ELSE IF a \in {"Liabilities:Card"} THEN "Liabilities"
    ELSE IF a \in {"Expenses:Food"} THEN "Expenses"
    ELSE "Income"

RECURSIVE FirstBalanceSheetPosting(_, _)
FirstBalanceSheetPosting(postings, i) ==
    IF i > Len(postings) THEN 0
    ELSE IF AccountRoot(postings[i]) \in {"Assets", "Liabilities"} THEN i
    ELSE FirstBalanceSheetPosting(postings, i + 1)

\* organizer.py guess_account: the for/else falls back to the Posting object
\* itself (entry.postings[0]), not to its account name
guess_account(e) ==
    IF e.type = "Transaction" /\ Len(e.postings) > 0
    THEN LET i == FirstBalanceSheetPosting(e.postings, 1) IN
         IF i > 0 THEN AccountName(e.postings[i])
         ELSE PostingObject(e.postings[1])
    ELSE IF HasAccount(e) THEN AccountName(EntryAccount)
    ELSE AccountName("other")

(***************************************************************************)
(* Python list helpers                                                     *)
(***************************************************************************)
InList(x, s) == \E i \in 1..Len(s) : s[i] = x

RECURSIVE IndexOf(_, _, _)
IndexOf(x, s, i) ==
    IF i > Len(s) THEN 0
    ELSE IF s[i] = x THEN i
    ELSE IndexOf(x, s, i + 1)

\* list.remove(x): removes the first occurrence only
ListRemove(s, x) ==
    LET i == IndexOf(x, s, 1) IN
    IF i = 0 THEN s
    ELSE SubSeq(s, 1, i - 1) \o SubSeq(s, i + 1, Len(s))

(***************************************************************************)
(* The duplicate scan shared by both BeanOrganizer classes                 *)
(***************************************************************************)
\* The while loop over match-key, match-key-1, ...: registers the entry under
\* every key that is free and stops at the first key that is taken.
RECURSIVE DuplicateScan(_, _, _, _)
DuplicateScan(dups, e, match_key, count) ==
    IF match_key = NoKey
    THEN [dups |-> dups, found |-> FALSE, existing |-> NoEntry]
    ELSE IF match_key \in DOMAIN dups  \* a stored entry is never falsy
    THEN [dups |-> dups, found |-> TRUE, existing |-> dups[match_key]]
    ELSE DuplicateScan(dups @@ (match_key :> e), e,
                       MetaMatchKey(e, count + 1), count + 1)

\* ExistingWins without the protection of confirmed entries
ExistingWins_NoStarGuard(existing, e) ==
    \/ ~HasFlag(existing)
    \/ existing.flag = e.flag

\* The flag test after the scan: TRUE when the existing entry is kept and the
\* incoming one is the duplicate.
ExistingWins(existing, e) ==
    \/ ~HasFlag(existing)
    \/ existing.flag = e.flag
    \/ existing.flag = "*"

\* organizer.py remove_exising_duplicate: returns the new (entries, duplicates).
\* Its early returns only leave this helper.
remove_exising_duplicate(ents, dups, e) ==
    LET scan == DuplicateScan(dups, e, MetaMatchKey(e, 0), 0)
        remove_list ==
            IF scan.found /\ ~ExistingWins(scan.existing, e)
            THEN <<scan.existing>> ELSE <<>>
    IN  [ entries |-> IF Len(remove_list) > 0
                      THEN ListRemove(ents, remove_list[1]) ELSE ents,
          duplicates |-> scan.dups ]

(***************************************************************************)
(* organizer.py BeanOrganizer.safe_add_entry                               *)
(***************************************************************************)
OrganizerSkips(e) ==
    \/ e.type \in {"Open", "Document"}
    \/ (e.type = "Transaction" /\ Len(e.postings) > 0 /\ e.flag = "P")

safe_add_entry(e0) ==
    /\ module = "organizer"
    /\ Len(input) < MaxLoaded
    /\ input' = Append(input, e0)
    /\ IF OrganizerSkips(e0)
       THEN UNCHANGED <<module, entries, duplicates, rule_vars, md_vars, sort_vars, fold_vars, save_vars>>
       ELSE LET e == [e0 EXCEPT !.account = guess_account(e0)]
                r == remove_exising_duplicate(entries, duplicates, e)
            IN  /\ entries' = Append(Append(r.entries, e), e)
                /\ duplicates' = r.duplicates
                /\ UNCHANGED <<module, rule_vars, md_vars, sort_vars, fold_vars, save_vars>>

(***************************************************************************)
(* merge.py BeanOrganizer.safe_add_entry                                   *)
(***************************************************************************)
\* merge.py tags the entry inline; the fallback is again the Posting object
merge_account(e) ==
    IF e.type = "Transaction" /\ Len(e.postings) > 0
    THEN LET i == FirstBalanceSheetPosting(e.postings, 1) IN
         IF i > 0 THEN AccountName(e.postings[i])
         ELSE PostingObject(e.postings[1])
    ELSE IF HasAccount(e) THEN AccountName(EntryAccount)
    ELSE AccountName("other")

merge_safe_add_entry(e0) ==
    /\ module = "merge"
    /\ Len(input) < MaxLoaded
    /\ input' = Append(input, e0)
    /\ LET match_key == IF e0.mk # None THEN ExplicitKey(e0.mk) ELSE format_entry(e0)
           e == [e0 EXCEPT !.account = merge_account(e0)]
           scan == DuplicateScan(duplicates, e, match_key, 0)
       IN  /\ duplicates' = scan.dups
           /\ UNCHANGED <<module, rule_vars, md_vars, sort_vars, fold_vars, save_vars>>
           /\ IF scan.found /\ ExistingWins(scan.existing, e)
              THEN UNCHANGED entries
              ELSE entries' =
                     Append(IF scan.found THEN ListRemove(entries, scan.existing)
                            ELSE entries, e)

(***************************************************************************)
(* Strings and regular expressions (rule.py)                               *)
(*                                                                         *)
(* A string is a sequence of characters; letters come in two cases.  A     *)
(* pattern is a literal prefix, optionally wrapped in one named group, and *)
(* optionally followed by ".*".                                            *)
(***************************************************************************)
Lower(c) == IF c = "A" THEN "a" ELSE IF c = "Z" THEN "z" ELSE c
Upper(c) == IF c = "a" THEN "A" ELSE IF c = "z" THEN "Z" ELSE c

LowerStr(s) == [i \in 1..Len(s) |-> Lower(s[i])]

\* str.title() on a one-word string
Title(s) == [i \in 1..Len(s) |-> IF i = 1 THEN Upper(s[i]) ELSE Lower(s[i])]

\* the absent string (None)
NoStr == <<"<None>">>

\* pattern source text: (?P<group>lits) followed by ".*" when tail
Pattern(lits, group, tail) == [lits |-> lits, group |-> group, tail |-> tail]

\* a string without regex syntax: as a pattern it is its own literal text
Str(chars) == Pattern(chars, None, FALSE)
Chars(str) == str.lits

\* re.compile(v): no flags are passed, so the pattern is case-sensitive
re_compile(v) == [pattern |-> v, flags |-> "0"]

CharMatches(reg, p, c) ==
    IF reg.flags = "IGNORECASE" THEN Lower(p) = Lower(c) ELSE p = c

\* reg.match(value) succeeds: the pattern matches a prefix of value
re_match(reg, value) ==
    /\ Len(value) >= Len(reg.pattern.lits)
    /\ \A i \in 1..Len(reg.pattern.lits) :
           CharMatches(reg, reg.pattern.lits[i], value[i])

\* match.groupdict() of a successful match
groupdict(reg, value) ==
    IF reg.pattern.group = None THEN <<>>
    ELSE (reg.pattern.group :> SubSeq(value, 1, Len(reg.pattern.lits)))

(***************************************************************************)
(* Rule keys.  A key is the sequence of its dash-separated words, so       *)
(* key.split('-') is the sequence itself.                                  *)
(***************************************************************************)
Commands == {"set", "match", "test"}
Scopes == {"tx", "transaction", "posting", "pst"}

\* str.lower() on a word of a key
LowerWord(w) == IF w = "Narration" THEN "narration" ELSE w
LowerKey(key) == [i \in 1..Len(key) |-> LowerWord(key[i])]

\* A groupdict of a key regex: which groups the regex has (has_*) and what
\* they captured (None for an optional group that took no part).
KeyMatch(command, has_directive, directive, has_parameter, parameter, has_meta_key, meta_key) ==
    [ ok |-> TRUE, command |-> command,
      has_directive |-> has_directive, directive |-> directive,
      has_parameter |-> has_parameter, parameter |-> parameter,
      has_meta_key |-> has_meta_key, meta_key |-> meta_key ]

\* match_any_re found no regex that matches: None
NoKeyMatch ==
    [ ok |-> FALSE, command |-> None,
      has_directive |-> FALSE, directive |-> None,
      has_parameter |-> FALSE, parameter |-> None,
      has_meta_key |-> FALSE, meta_key |-> <<>> ]

\* the shared tail of the four key grammars: [scope-]field or [scope-]meta-<key>
SubKeyMatch(command, k) ==
    IF Len(k) = 1
    THEN KeyMatch(command, FALSE, None, TRUE, k[1], FALSE, <<>>)
    ELSE IF Len(k) = 2 /\ k[1] \in Scopes
    THEN KeyMatch(command, TRUE, k[1], TRUE, k[2], FALSE, <<>>)
    ELSE IF Len(k) >= 2 /\ k[1] = "meta"
    THEN KeyMatch(command, TRUE, None, TRUE, "meta", TRUE, SubSeq(k, 2, Len(k)))
    ELSE IF Len(k) >= 3 /\ k[1] \in Scopes /\ k[2] = "meta"
    THEN KeyMatch(command, TRUE, k[1], TRUE, "meta", TRUE, SubSeq(k, 3, Len(k)))
    ELSE NoKeyMatch

\* match_any_re(KEY_RE, key)
KEY_RE(key) ==
    IF Len(key) = 0 \/ key[1] \notin Commands THEN NoKeyMatch
    ELSE IF Len(key) = 1
    THEN KeyMatch(key[1], FALSE, None, FALSE, None, FALSE, <<>>)
    ELSE SubKeyMatch(key[1], Tail(key))

\* match_any_re(SUB_KEY_RE, key)
SUB_KEY_RE(key) ==
    IF Len(key) = 0 THEN NoKeyMatch ELSE SubKeyMatch(None, key)

\* match_any_re(MATCH_KEY_RE, key): the bare key "match" gives an empty groupdict
MATCH_KEY_RE(key) ==
    IF Len(key) = 0 \/ key[1] # "match" THEN NoKeyMatch
    ELSE IF Len(key) = 1
    THEN KeyMatch(None, FALSE, None, FALSE, None, FALSE, <<>>)
    ELSE SubKeyMatch(None, Tail(key))

\* match_any_re(MATCH_SUB_KEY_RE, key)
MATCH_SUB_KEY_RE(key) ==
    IF Len(key) = 0 THEN NoKeyMatch ELSE SubKeyMatch(None, key)

(***************************************************************************)
(* Rule compilation (rule.py Rule.__init__ / Rule.compile)                 *)
(***************************************************************************)
\* values of a raw rule mapping: a string, a list of strings, or a nested
\* mapping (an ordered list of key/value items)
StrValue(x) == [kind |-> "str", s |-> <<x>>, items |-> <<>>]
ListValue(xs) == [kind |-> "list", s |-> <<>>, items |-> xs]
DictValue(kvs) == [kind |-> "dict", s |-> <<>>, items |-> kvs]
Item(key, value) == [key |-> key, value |-> value]

\* a string that holds an inline YAML list, such as "[p1, p2]"
YamlListValue(xs) == [kind |-> "yaml_list", s |-> <<>>, items |-> xs]

\* Rule.decode_value: yaml.load of a string.  A plain scalar loads as itself,
\* an inline list loads as a list; lists and mappings are passed through.
decode_value(value) ==
    IF value.kind = "yaml_list" THEN ListValue(value.items) ELSE value

MatchRule(directive, parameter, meta_key, regular_expressions) ==
    [ directive |-> directive, parameter |-> parameter, meta_key |-> meta_key,
      regular_expressions |-> regular_expressions ]

SetRule(directive, parameter, meta_key, value) ==
    [ directive |-> directive, parameter |-> parameter, meta_key |-> meta_key,
      value |-> value ]

\* MatchRule.key: f"{directive}-{parameter}" plus f"-{meta_key}" when set
MatchRuleKey(m) == <<m.directive, m.parameter>> \o m.meta_key

\* outcome of a compilation step: the match rules and set rules so far, or
\* the exception that ended it
Compiled(mrs, srs) ==
    [ok |-> TRUE, error |-> None, match_requirements |-> mrs, set_rules |-> srs]
Raised(exc) ==
    [ok |-> FALSE, error |-> exc, match_requirements |-> <<>>, set_rules |-> <<>>]

\* the outcome of MatchRule.extend: the receiver afterwards, or the
\* AssertionError
Extended(raised, match_rule) == [raised |-> raised, match_rule |-> match_rule]

\* extend without its three assertions
extend_NoAssert(receiver, other) ==
    Extended(FALSE,
             [receiver EXCEPT !.regular_expressions = @ \cup other.regular_expressions])

\* MatchRule.extend(other): the assertions come before any regex is added
extend(receiver, other) ==
    IF \/ receiver.directive # other.directive
       \/ receiver.parameter # other.parameter
       \/ receiver.meta_key # other.meta_key
    THEN Extended(TRUE, receiver)
    ELSE Extended(FALSE,
                  [receiver EXCEPT !.regular_expressions =
                       @ \cup other.regular_expressions])

\* Rule.upset_match_rule: a rule stored under the same key is extended with
\* the new one, taking the union of the regular expressions
upset_match_rule(mrs, m) ==
    LET hit == { i \in 1..Len(mrs) : MatchRuleKey(mrs[i]) = MatchRuleKey(m) } IN
    IF hit = {} THEN Compiled(Append(mrs, m), <<>>)
    ELSE LET i == CHOOSE j \in hit : TRUE
             ext == extend(mrs[i], m)
         IN  IF ext.raised THEN Raised("AssertionError")
             ELSE Compiled([mrs EXCEPT ![i] = ext.match_rule], <<>>)

\* the body shared by the two branches of add_match_directive: one
\* (groupdict, value) pair becomes a MatchRule and is upserted
AddOneMatch(mrs, key_parts, value) ==
    LET field == key_parts.parameter
        given == key_parts.directive
        meta_name == key_parts.meta_key
        values == IF value.kind = "str" THEN { value.s[1] }
                  ELSE { value.items[i] : i \in 1..Len(value.items) }
        directive ==
            IF field \in {"narration", "tags", "payee"} THEN "transaction"
            ELSE IF field = "account" THEN "posting"
            ELSE given
    IN  IF ~key_parts.ok THEN Raised("AttributeError")
        ELSE IF field \in {"narration", "tags", "payee"}
                /\ given \notin {None, "transaction"}
        THEN Raised("AssertionError")
        ELSE IF field = "account" /\ given \notin {None, "posting"}
        THEN Raised("AssertionError")
        ELSE IF field = "meta" /\ meta_name = <<>>
        THEN Raised("AssertionError")
        ELSE upset_match_rule(mrs,
                MatchRule(directive, field, meta_name,
                          { re_compile(v) : v \in values }))

RECURSIVE AddNestedMatches(_, _, _)
AddNestedMatches(mrs, items, i) ==
    IF i > Len(items) THEN Compiled(mrs, <<>>)
    ELSE LET r == AddOneMatch(mrs, MATCH_SUB_KEY_RE(items[i].key), items[i].value)
         IN  IF ~r.ok THEN r
             ELSE AddNestedMatches(r.match_requirements, items, i + 1)

\* Rule.add_match_directive(key, value)
add_match_directive(mrs, key, value) ==
    LET key_parts == MATCH_KEY_RE(key) IN
    IF ~key_parts.ok THEN Raised("AssertionError")
    ELSE IF value.kind = "dict"
    THEN IF key # <<"match">> THEN Raised("AssertionError")
         ELSE AddNestedMatches(mrs, value.items, 1)
    ELSE AddOneMatch(mrs, key_parts, value)

VALID_FIELDS ==
    { "account", "payee", "date", "tags", "narration", "posting",
      "transaction", "links", "meta" }

\* the loop of Rule.compile over the items of the mapping
RECURSIVE CompileLoop(_, _, _)
CompileLoop(mrs, rule, i) ==
    IF i > Len(rule) THEN Compiled(mrs, <<>>)
    ELSE LET key0 == rule[i].key
             fields == Tail(key0)
             value == decode_value(rule[i].value)
             key == LowerKey(key0)
             r == IF key[1] = "match" THEN add_match_directive(mrs, key, value)
                  ELSE Compiled(mrs, <<>>)
         IN  IF key0 = <<"match", "key">> THEN CompileLoop(mrs, rule, i + 1)
             ELSE IF key0[1] \notin Commands THEN Raised("AssertionError")
             ELSE IF ~r.ok THEN r
             ELSE IF \E j \in 1..Len(fields) : fields[j] \notin VALID_FIELDS
             THEN Raised("AssertionError")
             ELSE CompileLoop(r.match_requirements, rule, i + 1)

(***************************************************************************)
(* Rule.add_directives over the generator Rule.expand_rule_dict            *)
(***************************************************************************)
TRANSACTION_PARAMETERS == {"narration", "tags", "payee", "links", "flag"}

DirectiveAttribute(command, directive, parameter, meta_key) ==
    [ command |-> command, directive |-> directive, parameter |-> parameter,
      meta_key |-> meta_key ]

\* Rule.default_key_match: setdefault('directive', ...) on the groupdict
default_key_match(key_match) ==
    IF key_match.has_directive THEN key_match
    ELSE IF key_match.parameter \in {"narration", "payee", "tags", "meta"}
    THEN [key_match EXCEPT !.has_directive = TRUE, !.directive = "transaction"]
    ELSE IF key_match.parameter = "account"
    THEN [key_match EXCEPT !.has_directive = TRUE, !.directive = "posting"]
    ELSE key_match

\* Rule.setdefault_params: the attribute with its scope normalised, or the
\* exception.  The failing assert on a transaction parameter evaluates the
\* undefined name transaction_parameters, hence NameError.
setdefault_params(attr) ==
    LET d == IF attr.directive \in {"tx", "trans"} THEN "transaction"
             ELSE attr.directive
    IN  IF attr.parameter \in TRANSACTION_PARAMETERS
        THEN IF d \in {None, "transaction"}
             THEN [ok |-> TRUE, error |-> None,
                   attr |-> [attr EXCEPT !.directive = "transaction"]]
             ELSE [ok |-> FALSE, error |-> "NameError", attr |-> attr]
        ELSE IF attr.parameter = "account"
        THEN IF d \in {None, "posting"}
             THEN [ok |-> TRUE, error |-> None,
                   attr |-> [attr EXCEPT !.directive = "posting"]]
             ELSE [ok |-> FALSE, error |-> "AssertionError", attr |-> attr]
        ELSE IF attr.parameter = "meta" /\ attr.meta_key = <<>>
        THEN [ok |-> FALSE, error |-> "AssertionError", attr |-> attr]
        ELSE [ok |-> TRUE, error |-> None, attr |-> [attr EXCEPT !.directive = d]]

\* the body of the loop of add_directives for one yielded attribute
AddDirective(srs, attr, value) ==
    LET r == setdefault_params(attr) IN
    IF ~r.ok THEN [ok |-> FALSE, error |-> r.error, set_rules |-> srs, attr |-> attr]
    ELSE [ ok |-> TRUE, error |-> None, attr |-> r.attr,
           set_rules |->
             IF attr.command = "set"
             THEN Append(srs, SetRule(r.attr.directive, r.attr.parameter,
                                      r.attr.meta_key, value))
             ELSE srs ]

\* the inner loop of expand_rule_dict over a nested mapping: one attribute
\* object is updated and yielded for every item
RECURSIVE ExpandNested(_, _, _, _)
ExpandNested(srs, attr, items, j) ==
    IF j > Len(items)
    THEN [ok |-> TRUE, error |-> None, set_rules |-> srs, attr |-> attr]
    ELSE LET m == SUB_KEY_RE(items[j].key)
             r == default_key_match(m)
             next == [attr EXCEPT
                        !.directive = IF r.has_directive THEN r.directive ELSE @,
                        !.parameter = IF r.has_parameter THEN r.parameter ELSE @,
                        !.meta_key = IF r.has_meta_key THEN r.meta_key ELSE @]
             y == AddDirective(srs, next, items[j].value)
         IN  IF ~m.ok
             THEN [ok |-> FALSE, error |-> "ValueError", set_rules |-> srs, attr |-> attr]
             ELSE IF ~y.ok THEN y
             ELSE ExpandNested(y.set_rules, y.attr, items, j + 1)

\* expand_rule_dict line 306: directive = 'set'
TopLevelDirective(key_match) == "set"

\* Rule.add_directives(rule_dict): the set rules of the mapping, or the exception
RECURSIVE add_directives(_, _, _)
add_directives(srs, rule, i) ==
    IF i > Len(rule) THEN [ok |-> TRUE, error |-> None, set_rules |-> srs]
    ELSE LET m == KEY_RE(rule[i].key)
             response == default_key_match(m)
             attr == DirectiveAttribute(m.command, TopLevelDirective(response),
                                        m.parameter, m.meta_key)
             value == rule[i].value
             y == IF value.kind = "dict"
                  THEN ExpandNested(srs, attr, value.items, 1)
                  ELSE AddDirective(srs, attr, value)
         IN  IF ~m.ok THEN [ok |-> FALSE, error |-> "ValueError", set_rules |-> srs]
             ELSE IF m.command = "test"
             THEN [ok |-> TRUE, error |-> None, set_rules |-> srs]
             ELSE IF ~y.ok
             THEN [ok |-> FALSE, error |-> y.error, set_rules |-> srs]
             ELSE add_directives(y.set_rules, rule, i + 1)

\* Rule(rule_dict): compile, then add_directives
compile(rule) ==
    LET c == CompileLoop(<<>>, rule, 1)
        d == add_directives(<<>>, rule, 1)
    IN  IF ~c.ok THEN c
        ELSE IF ~d.ok THEN Raised(d.error)
        ELSE Compiled(c.match_requirements, d.set_rules)

(***************************************************************************)
(* Transactions as the rule engine sees them                               *)
(***************************************************************************)
Posting(account, flag) == [account |-> account, flag |-> flag]

\* tags/links hold a set; _replace(tags=value) stores the bare string instead
TagSet(items) == [kind |-> "set", items |-> items]
TagStr(x) == [kind |-> "str", items |-> {x}]

Transaction(flag, payee, narration, tags, links, meta, postings) ==
    [ flag |-> flag, payee |-> payee, narration |-> narration, tags |-> tags,
      links |-> links, meta |-> meta, postings |-> postings ]

\* namedtuple fields that _replace accepts
TRANSACTION_FIELDS ==
    {"meta", "date", "flag", "payee", "narration", "tags", "links", "postings"}
POSTING_FIELDS == {"account", "units", "cost", "price", "flag", "meta"}

(***************************************************************************)
(* Rule.check (rule.py): MatchRule.extract_value, match_entry, Rule.check  *)
(***************************************************************************)
\* a value read from the entry, None, or an exception
Extracted(kind, value) == [kind |-> kind, value |-> value]

RECURSIVE FirstPending(_, _)
FirstPending(postings, i) ==
    IF i > Len(postings) THEN 0
    ELSE IF postings[i].flag = "!" THEN i
    ELSE FirstPending(postings, i + 1)

\* MatchRule.extract_value(entry).  kind "str" is a string, "other" a value
\* that is no string (None, a set, a date), "raise" an exception.
extract_value(m, entry) ==
    LET i == FirstPending(entry.postings, 1) IN
    IF m.directive = "posting" /\ i = 0 THEN Extracted("other", NoStr)
    ELSE IF m.directive = "posting"
    THEN IF m.parameter = "account" THEN Extracted("str", entry.postings[i].account)
         ELSE IF m.parameter = "flag" THEN Extracted("str", <<entry.postings[i].flag>>)
         ELSE IF m.parameter \in POSTING_FIELDS \ {"meta"} THEN Extracted("other", NoStr)
         ELSE Extracted("raise", NoStr)
    ELSE IF m.parameter = "meta"
    THEN IF m.meta_key \in DOMAIN entry.meta
         THEN Extracted("str", entry.meta[m.meta_key])
         ELSE Extracted("raise", NoStr)
    ELSE IF m.parameter = "narration" THEN Extracted("str", entry.narration)
    ELSE IF m.parameter = "payee"
    THEN IF entry.payee = NoStr THEN Extracted("other", NoStr)
         ELSE Extracted("str", entry.payee)
    ELSE IF m.parameter = "flag" THEN Extracted("str", <<entry.flag>>)
    ELSE IF m.parameter \in TRANSACTION_FIELDS THEN Extracted("other", NoStr)
    ELSE Extracted("raise", NoStr)

\* outcome of match_entry and of check: a capture dict, None, or an exception
Captures(d) == [kind |-> "dict", captures |-> d]
NoMatch == [kind |-> "None", captures |-> <<>>]
CheckRaised == [kind |-> "raise", captures |-> <<>>]

\* MatchRule.match_entry(entry): the set of outcomes it can have.  The regex
\* set is iterated in hash order and the first regex that matches decides the
\* groupdict, so every matching regex is a possible outcome.
match_entry(m, entry) ==
    LET x == extract_value(m, entry)
        hits == { reg \in m.regular_expressions : re_match(reg, x.value) }
    IN  IF x.kind = "raise" THEN { CheckRaised }
        ELSE IF m.regular_expressions = {} THEN { NoMatch }
        ELSE IF x.kind = "other" THEN { CheckRaised }
        ELSE IF hits = {} THEN { NoMatch }
        ELSE { Captures(groupdict(reg, x.value)) : reg \in hits }

\* Rule.check(entry): the loop over match_requirements in insertion order
RECURSIVE check(_, _, _, _)
check(mrs, entry, i, result_dict) ==
    IF i > Len(mrs) THEN { Captures(result_dict) }
    ELSE UNION { IF match.kind = "raise" THEN { CheckRaised }
                 ELSE IF match.kind = "None" THEN { NoMatch }
                 ELSE check(mrs, entry, i + 1, match.captures @@ result_dict)
                 : match \in match_entry(mrs[i], entry) }

(***************************************************************************)
(* Rule.modify_entry (rule.py)                                             *)
(***************************************************************************)
\* entry._replace(**{parameter: value}) on a Transaction; fields the model
\* does not carry (date) are accepted and change nothing
ReplaceField(entry, parameter, value) ==
    IF parameter = "flag" THEN [entry EXCEPT !.flag = value]
    ELSE IF parameter = "payee" THEN [entry EXCEPT !.payee = value]
    ELSE IF parameter = "narration" THEN [entry EXCEPT !.narration = value]
    ELSE IF parameter = "tags" THEN [entry EXCEPT !.tags = TagStr(value)]
    ELSE IF parameter = "links" THEN [entry EXCEPT !.links = TagStr(value)]
    ELSE entry

\* posting._replace(**{parameter: value, 'flag': '*'}) on a pending posting
ReplacePosting(posting, parameter, value) ==
    IF posting.flag # "!" THEN posting
    ELSE IF parameter = "account" THEN Posting(value, "*")
    ELSE Posting(posting.account, "*")

\* state of the loop of modify_entry: the entry being rebuilt, the metadata
\* dict of the entry that was passed in, and whether the rebuilt entry still
\* shares that dict
Modified(raised, entry, input_meta, shared) ==
    [raised |-> raised, entry |-> entry, input_meta |-> input_meta, shared |-> shared]

\* field[5:] when field.startswith('meta_'), as a metadata key; <<>> otherwise
MetaCaptureKey(field) == IF field = "meta_x" THEN <<"x">> ELSE <<>>

\* the inner loop over match_values, run after every Set Rule
RECURSIVE ApplyCaptures(_, _, _)
ApplyCaptures(st, match_values, names) ==
    IF names = {} THEN st
    ELSE LET field == CHOOSE n \in names : TRUE
             value == match_values[field]
             e1 == IF field = "payee" /\ st.entry.payee \in {NoStr, <<>>}
                   THEN [st.entry EXCEPT !.payee = Title(value)]
                   ELSE st.entry
             meta_name == MetaCaptureKey(field)
             e2 == IF meta_name # <<>>
                   THEN [e1 EXCEPT !.meta = (meta_name :> value) @@ @]
                   ELSE e1
             im == IF meta_name # <<>> /\ st.shared
                   THEN (meta_name :> value) @@ st.input_meta
                   ELSE st.input_meta
         IN  ApplyCaptures(Modified(FALSE, e2, im, st.shared), match_values,
                           names \ {field})

\* one Set Rule applied to the entry (the branch on sr.directive)
ApplySetRule(st, sr) ==
    LET entry == st.entry
        value == Chars(sr.value.s[1])
        pending == \E i \in 1..Len(entry.postings) : entry.postings[i].flag = "!"
    IN  IF sr.directive = "transaction"
        THEN IF sr.meta_key # <<>>
             THEN Modified(FALSE,
                           [entry EXCEPT !.meta = (sr.meta_key :> value) @@ @],
                           st.input_meta, FALSE)
             ELSE IF sr.parameter \notin TRANSACTION_FIELDS
             THEN Modified(TRUE, entry, st.input_meta, st.shared)
             ELSE Modified(FALSE, ReplaceField(entry, sr.parameter, value),
                           st.input_meta, st.shared)
        ELSE IF sr.directive = "posting"
        THEN IF pending /\ sr.parameter \notin POSTING_FIELDS
             THEN Modified(TRUE, entry, st.input_meta, st.shared)
             ELSE Modified(FALSE,
                    [entry EXCEPT
                       !.postings = [i \in 1..Len(entry.postings) |->
                             ReplacePosting(entry.postings[i], sr.parameter, value)],
                       !.flag = "*"],
                    st.input_meta, st.shared)
        ELSE st

RECURSIVE ModifyLoop(_, _, _, _)
ModifyLoop(st, set_rules, i, match_values) ==
    IF i > Len(set_rules) \/ st.raised THEN st
    ELSE LET a == ApplySetRule(st, set_rules[i]) IN
         IF a.raised THEN a
         ELSE ModifyLoop(ApplyCaptures(a, match_values, DOMAIN match_values),
                         set_rules, i + 1, match_values)

\* Rule.modify_entry(entry, match_values)
modify_entry(set_rules, entry, match_values) ==
    ModifyLoop(Modified(FALSE, entry, entry.meta, TRUE), set_rules, 1, match_values)

(***************************************************************************)
(* Inputs of the rule engine                                               *)
(***************************************************************************)
\* narrations: "AZ1" stands for "AMZN Mktp US*L08746BB3", "az1" for the same
\* text in lower case, "ZA" for an unrelated narration
Narrations == { <<"A", "Z", "1">>, <<"a", "z", "1">>, <<"Z", "A">> }

\* accounts: Liabilities:CreditCard, Expenses:FIXME, Expenses:Shopping,
\* Expenses:Other
LIAB == <<"L", "C">>
FIXME == <<"E", "F">>
SHOP == <<"E", "S">>
MISC == <<"E", "O">>

\* patterns: "AZ.*" stands for "AMZN Mktp.*", "az.*" for "amzn mktp.*"
P_AZ == Pattern(<<"A", "Z">>, None, TRUE)
P_az == Pattern(<<"a", "z">>, None, TRUE)
P_payee == Pattern(<<"A", "Z">>, "payee", TRUE)
P_meta == Pattern(<<"A">>, "meta_x", TRUE)
P_Exp == Pattern(<<"E">>, None, TRUE)
P_Liab == Pattern(<<"L">>, None, TRUE)

NarrationPatterns == {P_AZ, P_az, P_payee, P_meta}

Nested(key, items) == <<Item(<<key>>, DictValue(items))>>

\* the match part of a raw mapping
MatchBlocks ==
    { <<>> } \cup
    { <<Item(<<"match", "narration">>, StrValue(p))>> : p \in {P_AZ, P_az} } \cup
    { Nested("match", <<Item(<<"narration">>, StrValue(p))>>) : p \in NarrationPatterns } \cup
    { Nested("match", <<Item(<<"narration">>, StrValue(P_AZ)),
                        Item(<<"account">>, StrValue(q))>>) : q \in {P_Exp, P_Liab} } \cup
    { Nested("match", <<Item(<<"account">>, StrValue(q)),
                        Item(<<"narration">>, StrValue(P_AZ))>>) : q \in {P_Exp, P_Liab} } \cup
    { Nested("match", <<Item(<<"narration">>, StrValue(P_payee)),
                        Item(<<"meta", "custom1">>, StrValue(P_meta))>>) } \cup
    { Nested("match", <<Item(<<"narration">>, StrValue(p)),
                        Item(<<"transaction", "narration">>, StrValue(q))>>) :
        p \in {P_AZ, P_az}, q \in {P_AZ, P_az, P_payee} } \cup
    { Nested("match", <<Item(<<"narration">>, ListValue(<<P_az, P_payee>>))>>),
      Nested("match", <<Item(<<"narration">>, YamlListValue(<<P_az, P_payee>>))>>) } \cup
    { Nested("match", <<Item(<<"narration">>, StrValue(P_az))>>) \o
        <<Item(<<"match", "narration">>, ListValue(<<P_AZ, P_payee>>))>>,
      <<Item(<<"match", "narration">>, ListValue(<<P_AZ, P_payee>>))>> \o
        Nested("match", <<Item(<<"narration">>, StrValue(P_az))>>),
      <<Item(<<"match", "Narration">>, StrValue(P_AZ))>>,
      <<Item(<<"match", "key">>, StrValue(Str(<<"k", "1">>)))>>,
      <<Item(<<"test">>, StrValue(Str(<<"A", "Z", "1">>)))>> }

\* the set part of a raw mapping
SetBlocks ==
    { <<>>,
      <<Item(<<"set", "posting", "account">>, StrValue(Str(SHOP)))>>,
      <<Item(<<"set", "account">>, StrValue(Str(SHOP)))>>,
      Nested("set", <<Item(<<"account">>, StrValue(Str(SHOP)))>>),
      Nested("set", <<Item(<<"payee">>, StrValue(Str(<<"P">>)))>>),
      Nested("set", <<Item(<<"account">>, StrValue(Str(SHOP))),
                      Item(<<"payee">>, StrValue(Str(<<"P">>)))>>),
      Nested("set", <<Item(<<"account">>, StrValue(Str(SHOP))),
                      Item(<<"posting", "account">>, StrValue(Str(MISC)))>>),
      Nested("set", <<Item(<<"tags">>, StrValue(Str(<<"t", "2">>)))>>),
      Nested("set", <<Item(<<"transaction", "meta", "note">>, StrValue(Str(<<"n">>)))>>),
      Nested("set", <<Item(<<"date">>, StrValue(Str(<<"d">>)))>>) }

\* the raw mappings given to Rule(...)
RuleDicts == { m \o s : m \in MatchBlocks, s \in SetBlocks }

PostingChoices ==
    { <<Posting(LIAB, "*"), Posting(FIXME, "!")>>,
      <<Posting(LIAB, "!"), Posting(FIXME, "!")>>,
      <<Posting(LIAB, "*"), Posting(SHOP, "*")>> }

MetaChoices == { <<>>, (<<"custom1">> :> <<"A", "Z">>) }

\* the entries given to Rule.check
TxEntries ==
    { Transaction(f, py, n, TagSet(tg), TagSet({}), mt, ps) :
        f \in {"!", "*"}, py \in {NoStr, <<"P">>}, n \in Narrations,
        tg \in {{}, {<<"t", "1">>}}, mt \in MetaChoices, ps \in PostingChoices }

\* capture dicts given to Rule.modify_entry besides the one check returned
CaptureDicts ==
    { <<>>, ("payee" :> <<"a", "z">>), ("meta_x" :> <<"A">>) }

NoTransaction == Transaction(None, NoStr, <<>>, TagSet({}), TagSet({}), <<>>, <<>>)

(***************************************************************************)
(* Actions of the rule engine                                              *)
(***************************************************************************)
\* Rule(rule_dict): Rule.__init__ runs compile
Rule_init(rd) ==
    /\ module = None
    /\ pc = "start"
    /\ rule_dict' = rd
    /\ rule_obj' = compile(rd)
    /\ pc' = IF rule_obj'.ok THEN "compiled" ELSE "failed"
    /\ UNCHANGED <<merge_vars, md_vars, sort_vars, fold_vars, save_vars, tx_entry, check_result, result, ext_call>>

\* rule.check(entry)
Rule_check(e) ==
    /\ module = None
    /\ pc = "compiled"
    /\ tx_entry' = e
    /\ check_result' \in check(rule_obj.match_requirements, e, 1, <<>>)
    /\ pc' = "checked"
    /\ UNCHANGED <<merge_vars, md_vars, sort_vars, fold_vars, save_vars, rule_dict, rule_obj, result, ext_call>>

\* rule.modify_entry(entry, match_values): the capture substitutions write
\* into entry.meta, which the given entry shares until a Set Rule copies it
Rule_modify_entry(mv) ==
    /\ module = None
    /\ pc = "checked"
    /\ result' = modify_entry(rule_obj.set_rules, tx_entry, mv)
    /\ tx_entry' = [tx_entry EXCEPT !.meta = result'.input_meta]
    /\ pc' = "modified"
    /\ UNCHANGED <<merge_vars, md_vars, sort_vars, fold_vars, save_vars, rule_dict, rule_obj, check_result, ext_call>>

\* the Match Rules handed to MatchRule.extend
OtherMatchRules ==
    { MatchRule(k[1], k[2], k[3], { re_compile(p) : p \in ps }) :
        k \in { <<"transaction", "narration", <<>>>>,
                <<"posting", "account", <<>>>>,
                <<"posting", "narration", <<>>>>,
                <<"transaction", "meta", <<"custom1">>>>,
                <<"transaction", "meta", <<"x">>>> },
        ps \in { {P_AZ}, {P_meta, P_Exp} } }

NoExtendCall == [i |-> 0, other |-> MatchRule(None, None, <<>>, {}), raised |-> FALSE]

\* rule.match_requirements[key].extend(other), as upset_match_rule and the
\* tests call it; other may be the receiver's equal
MatchRule_extend(i, other) ==
    /\ module = None
    /\ pc = "compiled"
    /\ i \in 1..Len(rule_obj.match_requirements)
    /\ LET ext == extend(rule_obj.match_requirements[i], other) IN
       /\ rule_obj' = [rule_obj EXCEPT !.match_requirements[i] = ext.match_rule]
       /\ ext_call' = [i |-> i, other |-> other, raised |-> ext.raised]
    /\ pc' = "extended"
    /\ UNCHANGED <<merge_vars, md_vars, sort_vars, fold_vars, save_vars, rule_dict, tx_entry, check_result, result>>

(***************************************************************************)
(* organizer.py / merge.py BeanOrganizer.sort_key and sorted_entries       *)
(***************************************************************************)
\* the strings that sort keys compare, in the order of Python's str <
SortedStrings ==
    << "", "Apple", "Assets", "Bank", "Card", "Expenses", "Food", "Income",
       "Job", "Liabilities", "Zebra", "other" >>
StrOrd(str) == CHOOSE i \in 1..Len(SortedStrings) : SortedStrings[i] = str

\* account.split(account_name): the components of the name
AccountSplit(a) ==
    IF a = "Assets:Bank" THEN <<"Assets", "Bank">>
    ELSE IF a = "Liabilities:Card" THEN <<"Liabilities", "Card">>
    ELSE IF a = "Expenses:Food" THEN <<"Expenses", "Food">>
    ELSE IF a = "Income:Job" THEN <<"Income", "Job">>
    ELSE <<a>>

\* data.SORT_ORDER.get(type(entry), 0)
SORT_ORDER(type) ==
    IF type = "Open" THEN 0 - 2
    ELSE IF type = "Balance" THEN 0 - 1
    ELSE IF type = "Document" THEN 1
    ELSE IF type = "Close" THEN 2
    ELSE 0

\* entry.meta.get(name, default) for a hint that is <<>> when absent
MetaGet(hint, default) == IF hint = <<>> THEN default ELSE hint[1]

Abs(n) == IF n < 0 THEN 0 - n ELSE n

\* Python's < on two tuples of numbers
RECURSIVE SeqLess(_, _)
SeqLess(a, b) ==
    IF Len(a) = 0 THEN Len(b) > 0
    ELSE IF Len(b) = 0 THEN FALSE
    ELSE IF a[1] # b[1] THEN a[1] < b[1]
    ELSE SeqLess(Tail(a), Tail(b))

\* Python's < on two sort keys; every component is held as a tuple of
\* numbers (a number n as <<n>>, a string as <<StrOrd(s)>>)
RECURSIVE TupleLess(_, _)
TupleLess(k1, k2) ==
    IF Len(k1) = 0 THEN Len(k2) > 0
    ELSE IF Len(k2) = 0 THEN FALSE
    ELSE IF k1[1] # k2[1] THEN SeqLess(k1[1], k2[1])
    ELSE TupleLess(Tail(k1), Tail(k2))

\* outcome of sort_key: the key, or the exception
SortKey(raised, key) == [raised |-> raised, key |-> key]

\* sort_key(entry): account.split raises when '_account' holds a Posting
sort_key(entry, method) ==
    IF ~entry.account.is_str THEN SortKey(TRUE, <<>>)
    ELSE LET path == AccountSplit(entry.account.account)
             account_sort_key == [i \in 1..Len(path) |-> StrOrd(path[i])]
             amount_sort_key ==
                 IF entry.type = "Transaction" /\ Len(entry.postings) > 0
                    /\ entry.price # <<>>
                 THEN 0 - Abs(entry.price[1]) ELSE 0
             text_sort_key ==
                 IF (entry.type = "Transaction" /\ Len(entry.postings) > 0)
                    \/ entry.type = "Note"
                 THEN entry.text ELSE ""
         IN  IF method = "date"
             THEN SortKey(FALSE,
                    << <<MetaGet(entry.global_sort, 100)>>, <<entry.date>>,
                       <<MetaGet(entry.sort, 100)>>, <<SORT_ORDER(entry.type)>>,
                       account_sort_key, <<amount_sort_key>>,
                       <<StrOrd(text_sort_key)>> >>)
             ELSE IF method = "account"
             THEN SortKey(FALSE,
                    << <<MetaGet(entry.global_sort, 100)>>, account_sort_key,
                       <<entry.date>>, <<MetaGet(entry.sort, 100)>>,
                       <<SORT_ORDER(entry.type)>>, <<amount_sort_key>>,
                       <<StrOrd(text_sort_key)>> >>)
             ELSE SortKey(TRUE, <<>>)

\* list.sort(key=sort_key) is stable: an entry goes behind every entry whose
\* key is not greater
RECURSIVE InsertByKey(_, _, _, _)
InsertByKey(sorted, e, method, i) ==
    IF i > Len(sorted)
       \/ TupleLess(sort_key(e, method).key, sort_key(sorted[i], method).key)
    THEN SubSeq(sorted, 1, i - 1) \o <<e>> \o SubSeq(sorted, i, Len(sorted))
    ELSE InsertByKey(sorted, e, method, i + 1)

RECURSIVE ListSort(_, _, _)
ListSort(list, method, n) ==
    IF n = 0 THEN <<>>
    ELSE InsertByKey(ListSort(list, method, n - 1), list[n], method, 1)

\* what sorted_entries did: whether it ran, whether it raised, what it yielded
Yielded(ran, raised, ents) == [ran |-> ran, raised |-> raised, entries |-> ents]
NotSorted == Yielded(FALSE, FALSE, <<>>)

\* sorted_entries(): sort self.entries in place, then yield each entry; an
\* exception of sort_key leaves the list as it was and nothing is yielded
sorted_entries ==
    /\ module \in {"organizer", "merge"}
    /\ IF \E i \in 1..Len(entries) : sort_key(entries[i], sort_method).raised
       THEN /\ yielded' = Yielded(TRUE, TRUE, <<>>)
            /\ UNCHANGED entries
       ELSE /\ entries' = ListSort(entries, sort_method, Len(entries))
            /\ yielded' = Yielded(TRUE, FALSE, entries')
    /\ UNCHANGED <<module, duplicates, input, rule_vars, md_vars, sort_method, fold_vars, save_vars>>

\* an entry of the loader with its date, text, hints and price filled in
Dated(e, date, text, global_sort, sort, price) ==
    [e EXCEPT !.date = date, !.text = text, !.global_sort = global_sort,
              !.sort = sort, !.price = price]

\* what the loader hands over when the order matters: transactions that
\* differ in narration, date, hints, account or price, a Note, a transaction
\* without a balance-sheet posting, and an Open directive
DatedEntries(id) ==
    LET bank == NewEntry(id, "Transaction", "*", <<None, None>>,
                         <<"Assets:Bank", "Expenses:Food">>)
        card == NewEntry(id, "Transaction", "*", <<None, None>>,
                         <<"Liabilities:Card", "Expenses:Food">>)
        food == NewEntry(id, "Transaction", "*", <<None, None>>,
                         <<"Expenses:Food", "Income:Job">>)
        note == NewEntry(id, "Note", None, <<None, None>>, <<>>)
        open == NewEntry(id, "Open", None, <<None, None>>, <<>>)
    IN  { Dated(bank, 1, "Zebra", <<>>, <<>>, <<>>),
          Dated(bank, 1, "Apple", <<>>, <<>>, <<>>),
          Dated(bank, 2, "Apple", <<>>, <<>>, <<>>),
          Dated(bank, 2, "Apple", <<>>, <<50>>, <<>>),
          Dated(bank, 2, "Zebra", <<50>>, <<>>, <<>>),
          Dated(card, 1, "Apple", <<>>, <<>>, <<>>),
          Dated(bank, 1, "Apple", <<>>, <<>>, <<5>>),
          Dated(note, 1, "Zebra", <<>>, <<>>, <<>>),
          Dated(food, 1, "Apple", <<>>, <<>>, <<>>),
          Dated(open, 2, "", <<>>, <<>>, <<>>) }

(***************************************************************************)
(* matcher.py match_directives                                             *)
(***************************************************************************)
\* how many rules the rules files hold, and how many entries the ledger has
MaxRules == 2
MaxEntries == 2

\* the mappings yaml.full_load reads from the rules files: a narration rule
\* that recategorizes the pending posting, an account rule, two rules without
\* a match block, a capturing rule, a rule written with flat keys, and a
\* rule without a match block that rewrites the narration
MdRuleDicts ==
    { Nested("match", <<Item(<<"narration">>, StrValue(P_AZ))>>) \o
        Nested("set", <<Item(<<"account">>, StrValue(Str(SHOP)))>>),
      Nested("match", <<Item(<<"account">>, StrValue(P_Exp))>>) \o
        Nested("set", <<Item(<<"payee">>, StrValue(Str(<<"P">>)))>>),
      Nested("set", <<Item(<<"payee">>, StrValue(Str(<<"Q">>)))>>),
      Nested("set", <<Item(<<"account">>, StrValue(Str(MISC)))>>),
      Nested("match", <<Item(<<"narration">>, StrValue(P_payee))>>) \o
        Nested("set", <<Item(<<"transaction", "meta", "note">>, StrValue(Str(<<"n">>)))>>),
      <<Item(<<"match", "narration">>, StrValue(P_AZ)),
        Item(<<"set", "posting", "account">>, StrValue(Str(SHOP)))>>,
      Nested("set", <<Item(<<"narration">>, StrValue(Str(<<"A", "Z">>)))>>) }

RECURSIVE SeqsUpTo(_, _)
SeqsUpTo(S, n) ==
    IF n = 0 THEN { <<>> }
    ELSE SeqsUpTo(S, n - 1) \cup
         { Append(q, x) : q \in { r \in SeqsUpTo(S, n - 1) : Len(r) = n - 1 }, x \in S }

\* options_map: without the 'coolbeans' settings, or with settings whose
\* rules files hold the given mappings
OptionsMaps ==
    { [coolbeans |-> FALSE, rules |-> <<>>] } \cup
    { [coolbeans |-> TRUE, rules |-> rs] : rs \in SeqsUpTo(MdRuleDicts, MaxRules) }

\* the ledger: a confirmed transaction that carries a match-narration
\* metadata key, two pending transactions with one pending posting, a
\* confirmed transaction, and a directive without a flag attribute
MdEntryChoices ==
    { Transaction("*", NoStr, <<"A", "Z", "1">>, TagSet({}), TagSet({}),
                  (<<"match-narration">> :> <<"A", "Z">>),
                  <<Posting(LIAB, "*"), Posting(SHOP, "*")>>),
      Transaction("!", NoStr, <<"A", "Z", "1">>, TagSet({}), TagSet({}), <<>>,
                  <<Posting(LIAB, "*"), Posting(FIXME, "!")>>),
      Transaction("!", NoStr, <<"Z", "A">>, TagSet({}), TagSet({}), <<>>,
                  <<Posting(LIAB, "*"), Posting(FIXME, "!")>>),
      Transaction("*", <<"P">>, <<"Z", "A">>, TagSet({}), TagSet({}), <<>>,
                  <<Posting(LIAB, "*"), Posting(SHOP, "*")>>),
      Transaction(None, NoStr, <<"Z", "A">>, TagSet({}), TagSet({}), <<>>, <<>>) }

Ledgers == SeqsUpTo(MdEntryChoices, MaxEntries)

\* locals of the rule loop: entry, the index of the next rule, modified, and
\* whether entry still shares its metadata dict with the entry of the ledger
Locals(entry, j, modified, shared) ==
    [entry |-> entry, j |-> j, modified |-> modified, shared |-> shared]
NoLocals == Locals(NoTransaction, 0, FALSE, FALSE)

\* "if match_values is None: continue"
Skips_Falsy(match_values) ==
    \/ match_values.kind = "None"
    \/ (match_values.kind = "dict" /\ DOMAIN match_values.captures = {})
Skips(match_values) == match_values.kind = "None"

\* match_directives up to the loop: options_map['coolbeans'] raises KeyError
\* when the settings are absent, and Rule(rule) raises on a mapping that does
\* not compile.  MATCH_CHECK.clear() empties a debugging history that nothing
\* below reads.
match_directives_start(options_map, ents) ==
    /\ module = "matcher"
    /\ md_pc = "start"
    /\ md_entries' = ents
    /\ LET rules == [i \in 1..Len(options_map.rules) |-> compile(options_map.rules[i])] IN
       IF options_map.coolbeans /\ \A i \in 1..Len(rules) : rules[i].ok
       THEN md_rules' = rules /\ md_pc' = "loop"
       ELSE md_rules' = <<>> /\ md_pc' = "failed"
    /\ md_i' = 1
    /\ new_entries' = <<>>
    /\ mod_entries' = <<>>
    /\ UNCHANGED <<merge_vars, rule_vars, sort_vars, fold_vars, save_vars, md_cur, md_first>>

\* for entry in entries: an entry whose flag is not '!' is passed through
match_directives_entry ==
    /\ module = "matcher"
    /\ md_pc = "loop"
    /\ md_i <= Len(md_entries)
    /\ LET entry == md_entries[md_i] IN
       IF entry.flag # "!"
       THEN /\ new_entries' = Append(new_entries, entry)
            /\ md_i' = md_i + 1
            /\ UNCHANGED <<md_pc, md_cur>>
       ELSE /\ md_cur' = Locals(entry, 1, FALSE, TRUE)
            /\ md_pc' = "rules"
            /\ UNCHANGED <<new_entries, md_i>>
    /\ UNCHANGED <<merge_vars, rule_vars, sort_vars, fold_vars, save_vars, md_rules, md_entries, mod_entries, md_first>>

\* for rule in rules: check the current entry, and rewrite it when the rule
\* matched; an exception of check or modify_entry ends match_directives
match_directives_rule ==
    /\ module = "matcher"
    /\ md_pc = "rules"
    /\ md_cur.j <= Len(md_rules)
    /\ LET rule == md_rules[md_cur.j] IN
       \E match_values \in check(rule.match_requirements, md_cur.entry, 1, <<>>) :
           IF match_values.kind = "raise"
           THEN md_pc' = "raised" /\ UNCHANGED <<md_cur, md_entries>>
           ELSE IF Skips(match_values)
           THEN /\ md_cur' = [md_cur EXCEPT !.j = @ + 1]
                /\ UNCHANGED <<md_pc, md_entries>>
           ELSE LET m == modify_entry(rule.set_rules, md_cur.entry,
                                      match_values.captures) IN
                /\ md_entries' = IF md_cur.shared
                                 THEN [md_entries EXCEPT ![md_i].meta = m.input_meta]
                                 ELSE md_entries
                /\ IF m.raised
                   THEN md_pc' = "raised" /\ UNCHANGED md_cur
                   ELSE /\ md_cur' = Locals(m.entry, md_cur.j + 1, TRUE,
                                            md_cur.shared /\ m.shared)
                        /\ UNCHANGED md_pc
    /\ UNCHANGED <<merge_vars, rule_vars, sort_vars, fold_vars, save_vars, md_rules, md_i, new_entries, mod_entries, md_first>>

\* after the rule loop: new_entries.append(entry), and mod_entries when a
\* rule rewrote it
match_directives_append ==
    /\ module = "matcher"
    /\ md_pc = "rules"
    /\ md_cur.j > Len(md_rules)
    /\ new_entries' = Append(new_entries, md_cur.entry)
    /\ mod_entries' = IF md_cur.modified THEN Append(mod_entries, md_cur.entry)
                      ELSE mod_entries
    /\ md_i' = md_i + 1
    /\ md_pc' = "loop"
    /\ UNCHANGED <<merge_vars, rule_vars, sort_vars, fold_vars, save_vars, md_rules, md_entries, md_cur, md_first>>

\* the loop is over: mod_entries is printed and new_entries returned
match_directives_return ==
    /\ module = "matcher"
    /\ md_pc = "loop"
    /\ md_i > Len(md_entries)
    /\ md_pc' = "done"
    /\ UNCHANGED <<merge_vars, rule_vars, sort_vars, fold_vars, save_vars, md_rules, md_entries,
                   md_i, md_cur, new_entries, mod_entries, md_first>>

\* match_directives is in its first pass
FirstPass == [pass |-> 1, entries |-> <<>>]

\* match_directives(new_entries, options_map): the caller hands the list the
\* first call returned to a second call; the rules files are the same, so
\* the rules compile to the same Rule objects
match_directives_again ==
    /\ module = "matcher"
    /\ md_pc = "done"
    /\ md_first.pass = 1
    /\ md_first' = [pass |-> 2, entries |-> new_entries]
    /\ md_entries' = new_entries
    /\ md_i' = 1
    /\ new_entries' = <<>>
    /\ mod_entries' = <<>>
    /\ md_pc' = "loop"
    /\ UNCHANGED <<merge_vars, rule_vars, sort_vars, fold_vars, save_vars, md_rules, md_cur>>

(***************************************************************************)
(* fold_injector (organizer.py, merge.py) and tools/folding.py:            *)
(* DateFoldStreamProxy                                                     *)
(***************************************************************************)
\* how many writes one stream receives
MaxWrites == 4

Date(year, month, day) == [year |-> year, month |-> month, day |-> day]

\* old_date = None
NoDate == Date(0, 0, 0)

\* a content given to write: whether date_re matches its start, the date it
\* starts with, and whether it has whitespace before a line end
Content(dated, date, trailing) == [dated |-> dated, date |-> date, trailing |-> trailing]

\* rendered entries of four days in three months of two years, one of them
\* also with trailing whitespace, and a text that starts with no date
Contents ==
    { Content(TRUE, d, FALSE) :
        d \in { Date(2020, 1, 15), Date(2020, 1, 16), Date(2020, 2, 15),
                Date(2021, 1, 15) } } \cup
    { Content(TRUE, Date(2020, 1, 15), TRUE), Content(FALSE, NoDate, FALSE) }

\* what the underlying stream receives: a month header, a day header, or a
\* content
Chunk(kind, date, trailing) == [kind |-> kind, date |-> date, trailing |-> trailing]

\* render_month: "* %B %Y", which shows the month and the year only
render_month(date) == Chunk("month", Date(date.year, date.month, 0), FALSE)

\* render_date: "** %Y-%m-%d - %A"
render_date(date) == Chunk("day", date, FALSE)

\* folding.py: re.sub(r'\s+\n', r'\n', content, 999); the proxies of
\* fold_injector write the content as given
WrittenContent(proxy, content) ==
    Chunk("content", content.date, content.trailing /\ proxy # "folding")

\* "if not old_date or new_date.month != old_date.month"
MonthChanged(old, new) == old = NoDate \/ new.month # old.month

\* "if not old_date or new_date.day != old_date.day"
DayChanged(old, new) == old = NoDate \/ new.day # old.day

\* DateFoldStreamProxy.write(content)
DateFoldStreamProxy_write(content) ==
    /\ module \in {"organizer", "merge", "folding"}
    /\ Len(writes) < MaxWrites
    /\ writes' = Append(writes, content)
    /\ old_date' = IF content.dated THEN content.date ELSE old_date
    /\ stream' = stream
                 \o (IF content.dated /\ MonthChanged(old_date, content.date)
                     THEN <<render_month(content.date)>> ELSE <<>>)
                 \o (IF content.dated /\ DayChanged(old_date, content.date)
                     THEN <<render_date(content.date)>> ELSE <<>>)
                 \o <<WrittenContent(module, content)>>
    /\ UNCHANGED <<merge_vars, rule_vars, md_vars, sort_vars, save_vars>>

(***************************************************************************)
(* organizer.py / merge.py BeanOrganizer.save_entries                      *)
(***************************************************************************)
\* what save_entries did: whether it ran and raised, the entries it handed
\* to printer.print_entries with the file each went to, the files it
\* opened, and those still open when it returned or raised
Saved(ran, raised, printed, opened, open) ==
    [ran |-> ran, raised |-> raised, printed |-> printed, opened |-> opened, open |-> open]
NotSaved == Saved(FALSE, FALSE, <<>>, {}, {})

\* the state of the loops of save_entries: the list with the tags popped so
\* far and the outcome so far
SaveLoop(ents, saved_so_far) == [entries |-> ents, saved |-> saved_so_far]

\* an entry handed to the printer, and the file that receives it
Printed(entry, file) == [entry |-> entry, file |-> file]

\* the file of the single-stream mode
MergeFile == "merge_file"

\* entry.meta.pop('_account'): the dict belongs to the entry object, so every
\* place of the list that holds this object (the same id) shows the change
PopAccount(ents, id) ==
    [i \in 1..Len(ents) |->
        IF ents[i].id = id THEN [ents[i] EXCEPT !.account = NoAccount] ELSE ents[i]]

\* organizer.py, split_type 'account': one stream per filing account, opened
\* on first use, all closed after the loop, which an exception never reaches.
\* fail_at is the place of the entry whose print_entries call raises (0: none).
RECURSIVE organizer_save_by_account(_, _, _, _, _)
organizer_save_by_account(ents, printed, opened, k, fail_at) ==
    IF k > Len(ents) THEN SaveLoop(ents, Saved(TRUE, FALSE, printed, opened, {}))
    ELSE LET entry == ents[k]
             filing_account == IF entry.account # NoAccount THEN entry.account
                               ELSE guess_account(entry)
             popped == PopAccount(ents, entry.id)
             streams == opened \cup {filing_account.account}
         IN  IF ~filing_account.is_str
             THEN SaveLoop(popped, Saved(TRUE, TRUE, printed, opened, opened))
             ELSE IF k = fail_at
             THEN SaveLoop(popped, Saved(TRUE, TRUE, printed, streams, streams))
             ELSE organizer_save_by_account(
                      popped, Append(printed, Printed(popped[k], filing_account.account)),
                      streams, k + 1, fail_at)

\* merge.py, split_type 'account': previous_account is never assigned, so
\* every entry opens the file of its own account (in a with block), prints
\* the entries collected since the last file, and starts a new collection
RECURSIVE merge_save_by_account(_, _, _, _, _, _)
merge_save_by_account(ents, printed, opened, collected, k, fail_at) ==
    IF k > Len(ents) THEN SaveLoop(ents, Saved(TRUE, FALSE, printed, opened, {}))
    ELSE LET entry == ents[k]
             filing_account == entry.account
             popped == PopAccount(ents, entry.id)
             streams == opened \cup {filing_account.account}
         IN  IF filing_account = NoAccount
             THEN SaveLoop(ents, Saved(TRUE, TRUE, printed, opened, {}))
             ELSE IF ~filing_account.is_str
             THEN SaveLoop(popped, Saved(TRUE, TRUE, printed, opened, {}))
             ELSE IF k = fail_at
             THEN SaveLoop(popped, Saved(TRUE, TRUE, printed, streams, {}))
             ELSE merge_save_by_account(
                      popped,
                      printed \o [i \in 1..Len(collected) |->
                                     Printed(collected[i], filing_account.account)],
                      streams, <<popped[k]>>, k + 1, fail_at)

\* the else branch of both modules: the whole sorted list goes to
\* print_entries through the fold injector, inside a with block
save_single_stream(ents, fail_at) ==
    IF fail_at > 0 THEN SaveLoop(ents, Saved(TRUE, TRUE, <<>>, {MergeFile}, {}))
    ELSE SaveLoop(ents, Saved(TRUE, FALSE,
                              [i \in 1..Len(ents) |-> Printed(ents[i], MergeFile)],
                              {MergeFile}, {}))

\* save_entries(): sorted_entries sorts self.entries in place before the
\* first entry is yielded; an exception of sort_key ends save_entries there
save_entries(fail_at) ==
    /\ module \in {"organizer", "merge"}
    /\ ~saved.ran
    /\ fail_at \in 0..Len(entries)
    /\ IF \E i \in 1..Len(entries) : sort_key(entries[i], sort_method).raised
       THEN /\ saved' = Saved(TRUE, TRUE, <<>>,
                              IF split_type = "account" THEN {} ELSE {MergeFile}, {})
            /\ yielded' = Yielded(TRUE, TRUE, <<>>)
            /\ UNCHANGED entries
       ELSE LET sorted == ListSort(entries, sort_method, Len(entries))
                r == IF split_type # "account" THEN save_single_stream(sorted, fail_at)
                     ELSE IF module = "organizer"
                     THEN organizer_save_by_account(sorted, <<>>, {}, 1, fail_at)
                     ELSE merge_save_by_account(sorted, <<>>, {}, <<>>, 1, fail_at)
            IN  /\ saved' = r.saved
                /\ entries' = r.entries
                /\ yielded' = Yielded(TRUE, FALSE, sorted)
    /\ UNCHANGED <<module, duplicates, input, rule_vars, md_vars, sort_method, fold_vars,
                   split_type>>

(***************************************************************************)
(* Specification                                                           *)
(***************************************************************************)
\* BeanOrganizer.__init__ leaves an empty collection and an empty index; no
\* Rule has been constructed.  module names the class in use: one of the two
\* BeanOrganizer classes, or None when the rule engine runs
Init ==
    /\ module \in {"organizer", "merge", "matcher", "folding", None}
    /\ entries = <<>>
    /\ duplicates = <<>>
    /\ input = <<>>
    /\ pc = "start"
    /\ rule_dict = <<>>
    /\ rule_obj = Raised(None)
    /\ tx_entry = NoTransaction
    /\ check_result = NoMatch
    /\ result = Modified(FALSE, NoTransaction, <<>>, TRUE)
    /\ ext_call = NoExtendCall
    /\ md_pc = "start"
    /\ md_rules = <<>>
    /\ md_entries = <<>>
    /\ md_i = 1
    /\ md_cur = NoLocals
    /\ new_entries = <<>>
    /\ mod_entries = <<>>
    /\ sort_method \in {"date", "account"}
    /\ yielded = NotSorted
    /\ md_first = FirstPass
    /\ old_date = NoDate
    /\ stream = <<>>
    /\ writes = <<>>
    /\ split_type = "date"
    /\ saved = NotSaved

MergeInit ==
    /\ module \in {"organizer", "merge"}
    /\ entries = <<>>
    /\ duplicates = <<>>
    /\ input = <<>>
    /\ pc = "start"
    /\ rule_dict = <<>>
    /\ rule_obj = Raised(None)
    /\ tx_entry = NoTransaction
    /\ check_result = NoMatch
    /\ result = Modified(FALSE, NoTransaction, <<>>, TRUE)
    /\ ext_call = NoExtendCall
    /\ md_pc = "start"
    /\ md_rules = <<>>
    /\ md_entries = <<>>
    /\ md_i = 1
    /\ md_cur = NoLocals
    /\ new_entries = <<>>
    /\ mod_entries = <<>>
    /\ sort_method = "date"
    /\ yielded = NotSorted
    /\ md_first = FirstPass
    /\ old_date = NoDate
    /\ stream = <<>>
    /\ writes = <<>>
    /\ split_type = "date"
    /\ saved = NotSaved

RuleInit ==
    /\ module = None
    /\ entries = <<>>
    /\ duplicates = <<>>
    /\ input = <<>>
    /\ pc = "start"
    /\ rule_dict = <<>>
    /\ rule_obj = Raised(None)
    /\ tx_entry = NoTransaction
    /\ check_result = NoMatch
    /\ result = Modified(FALSE, NoTransaction, <<>>, TRUE)
    /\ ext_call = NoExtendCall
    /\ md_pc = "start"
    /\ md_rules = <<>>
    /\ md_entries = <<>>
    /\ md_i = 1
    /\ md_cur = NoLocals
    /\ new_entries = <<>>
    /\ mod_entries = <<>>
    /\ sort_method = "date"
    /\ yielded = NotSorted
    /\ md_first = FirstPass
    /\ old_date = NoDate
    /\ stream = <<>>
    /\ writes = <<>>
    /\ split_type = "date"
    /\ saved = NotSaved

MatcherInit ==
    /\ module = "matcher"
    /\ entries = <<>>
    /\ duplicates = <<>>
    /\ input = <<>>
    /\ pc = "start"
    /\ rule_dict = <<>>
    /\ rule_obj = Raised(None)
    /\ tx_entry = NoTransaction
    /\ check_result = NoMatch
    /\ result = Modified(FALSE, NoTransaction, <<>>, TRUE)
    /\ ext_call = NoExtendCall
    /\ md_pc = "start"
    /\ md_rules = <<>>
    /\ md_entries = <<>>
    /\ md_i = 1
    /\ md_cur = NoLocals
    /\ new_entries = <<>>
    /\ mod_entries = <<>>
    /\ sort_method = "date"
    /\ yielded = NotSorted
    /\ md_first = FirstPass
    /\ old_date = NoDate
    /\ stream = <<>>
    /\ writes = <<>>
    /\ split_type = "date"
    /\ saved = NotSaved

EngineInit ==
    /\ module \in {None, "matcher"}
    /\ entries = <<>>
    /\ duplicates = <<>>
    /\ input = <<>>
    /\ pc = "start"
    /\ rule_dict = <<>>
    /\ rule_obj = Raised(None)
    /\ tx_entry = NoTransaction
    /\ check_result = NoMatch
    /\ result = Modified(FALSE, NoTransaction, <<>>, TRUE)
    /\ ext_call = NoExtendCall
    /\ md_pc = "start"
    /\ md_rules = <<>>
    /\ md_entries = <<>>
    /\ md_i = 1
    /\ md_cur = NoLocals
    /\ new_entries = <<>>
    /\ mod_entries = <<>>
    /\ sort_method = "date"
    /\ yielded = NotSorted
    /\ md_first = FirstPass
    /\ old_date = NoDate
    /\ stream = <<>>
    /\ writes = <<>>
    /\ split_type = "date"
    /\ saved = NotSaved

SortInit ==
    /\ module \in {"organizer", "merge"}
    /\ entries = <<>>
    /\ duplicates = <<>>
    /\ input = <<>>
    /\ pc = "start"
    /\ rule_dict = <<>>
    /\ rule_obj = Raised(None)
    /\ tx_entry = NoTransaction
    /\ check_result = NoMatch
    /\ result = Modified(FALSE, NoTransaction, <<>>, TRUE)
    /\ ext_call = NoExtendCall
    /\ md_pc = "start"
    /\ md_rules = <<>>
    /\ md_entries = <<>>
    /\ md_i = 1
    /\ md_cur = NoLocals
    /\ new_entries = <<>>
    /\ mod_entries = <<>>
    /\ sort_method \in {"date", "account"}
    /\ yielded = NotSorted
    /\ md_first = FirstPass
    /\ old_date = NoDate
    /\ stream = <<>>
    /\ writes = <<>>
    /\ split_type = "date"
    /\ saved = NotSaved

SaveInit ==
    /\ module \in {"organizer", "merge"}
    /\ entries = <<>>
    /\ duplicates = <<>>
    /\ input = <<>>
    /\ pc = "start"
    /\ rule_dict = <<>>
    /\ rule_obj = Raised(None)
    /\ tx_entry = NoTransaction
    /\ check_result = NoMatch
    /\ result = Modified(FALSE, NoTransaction, <<>>, TRUE)
    /\ ext_call = NoExtendCall
    /\ md_pc = "start"
    /\ md_rules = <<>>
    /\ md_entries = <<>>
    /\ md_i = 1
    /\ md_cur = NoLocals
    /\ new_entries = <<>>
    /\ mod_entries = <<>>
    /\ yielded = NotSorted
    /\ md_first = FirstPass
    /\ old_date = NoDate
    /\ stream = <<>>
    /\ writes = <<>>
    /\ split_type \in {"account", "date"}
    /\ sort_method = split_type
    /\ saved = NotSaved

FoldInit ==
    /\ module \in {"organizer", "merge", "folding"}
    /\ entries = <<>>
    /\ duplicates = <<>>
    /\ input = <<>>
    /\ pc = "start"
    /\ rule_dict = <<>>
    /\ rule_obj = Raised(None)
    /\ tx_entry = NoTransaction
    /\ check_result = NoMatch
    /\ result = Modified(FALSE, NoTransaction, <<>>, TRUE)
    /\ ext_call = NoExtendCall
    /\ md_pc = "start"
    /\ md_rules = <<>>
    /\ md_entries = <<>>
    /\ md_i = 1
    /\ md_cur = NoLocals
    /\ new_entries = <<>>
    /\ mod_entries = <<>>
    /\ sort_method = "date"
    /\ yielded = NotSorted
    /\ md_first = FirstPass
    /\ old_date = NoDate
    /\ stream = <<>>
    /\ writes = <<>>
    /\ split_type = "date"
    /\ saved = NotSaved

\* add_file: the loader hands the next entry of the file to safe_add_entry
add_file ==
    \E e \in LoadedEntries(Len(input) + 1) :
        \/ safe_add_entry(e)
        \/ merge_safe_add_entry(e)

RuleNext ==
    \/ \E rd \in RuleDicts : Rule_init(rd)
    \/ \E e \in TxEntries : Rule_check(e)
    \/ \E mv \in CaptureDicts \cup
                 (IF check_result.kind = "dict" THEN {check_result.captures} ELSE {}) :
           Rule_modify_entry(mv)
    \/ \E i \in 1..Len(rule_obj.match_requirements) :
           \E other \in OtherMatchRules \cup {rule_obj.match_requirements[i]} :
               MatchRule_extend(i, other)

match_directives ==
    \/ \E options_map \in OptionsMaps : \E ents \in Ledgers :
           match_directives_start(options_map, ents)
    \/ match_directives_entry
    \/ match_directives_rule
    \/ match_directives_append
    \/ match_directives_return
    \/ match_directives_again

\* add_file over a ledger whose entries differ where the sort key looks
add_dated_file ==
    \E e \in DatedEntries(Len(input) + 1) :
        \/ safe_add_entry(e)
        \/ merge_safe_add_entry(e)

SortNext == add_dated_file \/ sorted_entries

\* the printer writes the next piece of text to the fold-injecting stream
FoldNext == \E content \in Contents : DateFoldStreamProxy_write(content)

\* loading, then one call of save_entries
SaveNext ==
    \/ (~saved.ran /\ add_dated_file)
    \/ \E fail_at \in 0..(2 * MaxLoaded) : save_entries(fail_at)

Next == add_file \/ RuleNext \/ match_directives \/ SortNext \/ FoldNext \/ SaveNext

Spec == Init /\ [][Next]_vars

\* the merge engine alone
MergeSpec == MergeInit /\ [][add_file]_vars

\* the rule engine alone
RuleSpec == RuleInit /\ [][RuleNext]_vars

\* one run of match_directives
MatcherSpec == MatcherInit /\ [][match_directives]_vars

\* the rule engine and match_directives
EngineSpec == EngineInit /\ [][RuleNext \/ match_directives]_vars

\* loading and sorting
SortSpec == SortInit /\ [][SortNext]_vars

\* loading and saving
SaveSpec == SaveInit /\ [][SaveNext]_vars

\* writes through one fold-injecting stream
FoldSpec == FoldInit /\ [][FoldNext]_vars

(***************************************************************************)
(* Properties of the merge engine                                          *)
(***************************************************************************)
\* how often the loaded entry with this id occurs in the working collection
Occurrences(id) == Cardinality({ i \in 1..Len(entries) : entries[i].id = id })

\* the first two loaded entries are transactions sharing an explicit match-key
TwoShareKey ==
    /\ Len(input) = 2
    /\ input[1].type = "Transaction" /\ input[2].type = "Transaction"
    /\ input[1].mk # None /\ input[1].mk = input[2].mk

\* C1: after any sequence of safe_add_entry calls the working collection
\* holds at most one entry for any explicit match-key value.
C1_OneEntryPerMatchKey ==
    \A k \in MatchKeys :
        Cardinality({ i \in 1..Len(entries) : entries[i].mk = k }) <= 1

\* C2: two entries sharing an explicit match-key, one '!' and one '*', added
\* in either order: the collection holds the '*' entry exactly once and the
\* '!' entry not at all.
C2_ConfirmedSupersedesPending ==
    (TwoShareKey /\ {input[1].flag, input[2].flag} = {"!", "*"}) =>
        \A j \in 1..2 :
            Occurrences(input[j].id) = (IF input[j].flag = "*" THEN 1 ELSE 0)

\* C3: two entries sharing a match-key, both '*', loaded one after the other:
\* the first is retained, the second dropped, and nothing is duplicated.
C3_FirstConfirmedRetained ==
    (TwoShareKey /\ input[1].flag = "*" /\ input[2].flag = "*") =>
        /\ Occurrences(input[1].id) = 1
        /\ Occurrences(input[2].id) = 0
        /\ Len(entries) = 1

\* C4: once a '*' entry is in the working collection, no later
\* safe_add_entry call removes it, whatever the incoming entry.
C4_ConfirmedNeverRemoved ==
    [][ \A i \in 1..Len(entries) :
            entries[i].flag = "*" => InList(entries[i], entries') ]_vars

\* C4 witness: a '*' entry is in the collection after a later entry with the
\* same match-key and another flag was added.
C4_Witness ==
    \E i \in 1..Len(entries) :
        /\ entries[i].flag = "*" /\ entries[i].mk # None
        /\ \E j \in 1..Len(input) :
               /\ j > entries[i].id
               /\ input[j].type = "Transaction"
               /\ input[j].mk = entries[i].mk
               /\ input[j].flag = "!"

\* C17: the duplicate index maps each match-key to the entry that holds the
\* key in the working collection: every entry the index refers to is a
\* member of self.entries.
C17_IndexRefersToMembers ==
    \A k \in DOMAIN duplicates : InList(duplicates[k], entries)

\* the explicit match-keys an entry carries
KeysOf(e) == {e.mk, e.mk1} \ {None}

\* two loaded entries collide on a match-key, explicit or derived
Collide(a, b) ==
    \/ KeysOf(a) \cap KeysOf(b) # {}
    \/ a.mk = None /\ b.mk = None /\ format_entry(a) = format_entry(b)

\* safe_add_entry accepts the entry: not skipped by type, not flagged 'P'
Accepted(e) ==
    /\ e.type \notin {"Open", "Document"}
    /\ ~(e.type = "Transaction" /\ Len(e.postings) > 0 /\ e.flag = "P")

\* C18: each entry that organizer.py safe_add_entry accepts occurs exactly
\* once in the working collection: after loading N accepted entries none of
\* which collides with another, len(self.entries) is N.
C18_AcceptedOccursOnce ==
    LET accepted == { i \in 1..Len(input) : Accepted(input[i]) } IN
    (/\ module = "organizer"
     /\ \A i, j \in accepted : i # j => ~Collide(input[i], input[j])) =>
        /\ \A i \in accepted : Occurrences(input[i].id) = 1
        /\ Len(entries) = Cardinality(accepted)

(***************************************************************************)
(* Properties of the rule engine                                           *)
(***************************************************************************)
AllPostingsPending(e) ==
    /\ Len(e.postings) > 0
    /\ \A i \in 1..Len(e.postings) : e.postings[i].flag = "!"

\* C5: modify_entry on an entry whose transaction flag is '!' and whose
\* postings are all flagged '!' returns an entry with transaction flag '*'
\* and no posting flagged '!', for every compiled Rule (also one with only
\* transaction-scope Set Rules or with none) and every capture dict.
C5_ModifyPromotesPending ==
    (pc = "modified" /\ tx_entry.flag = "!" /\ AllPostingsPending(tx_entry)) =>
        /\ ~result.raised
        /\ result.entry.flag = "*"
        /\ \A i \in 1..Len(result.entry.postings) :
               result.entry.postings[i].flag # "!"

\* the rule of the worked example
C6_RuleDict ==
    <<Item(<<"match", "narration">>, StrValue(P_AZ)),
      Item(<<"set", "posting", "account">>, StrValue(Str(SHOP)))>>

\* C6: the rule {match-narration: "AMZN Mktp.*", set-posting-account:
\* "Expenses:Shopping"} compiles; check on a pending entry with narration
\* "AMZN Mktp US*L08746BB3" returns a capture dict; modify_entry gives the
\* formerly pending posting the account Expenses:Shopping and flag '*', the
\* transaction flag '*', and leaves the other postings unchanged.
C6_WorkedExample ==
    rule_dict = C6_RuleDict =>
        /\ pc # "start" => rule_obj.ok
        /\ (pc \in {"checked", "modified"} /\ tx_entry.flag = "!"
              /\ tx_entry.narration = <<"A", "Z", "1">>) =>
               check_result.kind = "dict"
        /\ (pc = "modified" /\ tx_entry.flag = "!"
              /\ tx_entry.narration = <<"A", "Z", "1">>) =>
               /\ ~result.raised
               /\ result.entry.flag = "*"
               /\ Len(result.entry.postings) = Len(tx_entry.postings)
               /\ \A i \in 1..Len(tx_entry.postings) :
                      result.entry.postings[i] =
                          IF tx_entry.postings[i].flag = "!"
                          THEN Posting(SHOP, "*")
                          ELSE tx_entry.postings[i]

\* the kinds of outcome one Match Rule can have on an entry
MatchKinds(m, e) == { o.kind : o \in match_entry(m, e) }

\* C7: check returns a capture dict only if every Match Rule matches the
\* entry; if at least one Match Rule does not match, check returns None,
\* never a partial capture dict, whatever the order of the Match Rules.
C7_CheckAllOrNothing ==
    pc = "checked" =>
        LET mrs == rule_obj.match_requirements IN
        /\ check_result.kind = "dict" =>
               \A i \in 1..Len(mrs) : MatchKinds(mrs[i], tx_entry) = {"dict"}
        /\ (\E i \in 1..Len(mrs) : MatchKinds(mrs[i], tx_entry) # {"dict"}) =>
               check_result = NoMatch

\* the patterns one value of a rule mapping declares
DeclaredPatterns(value) ==
    IF value.kind = "str" THEN { value.s[1] }
    ELSE { value.items[j] : j \in 1..Len(value.items) }

NarrationKeys == { <<"narration">>, <<"transaction", "narration">> }

\* the match directives of a mapping that name the transaction narration, as
\* <<position, nested position>> pairs (nested position 0 for a flat key)
NarrationDirectives(rd) ==
    { <<i, 0>> : i \in { i \in 1..Len(rd) :
          /\ Len(rd[i].key) > 1 /\ rd[i].key[1] = "match"
          /\ Tail(rd[i].key) \in NarrationKeys } }
    \cup UNION { { <<i, j>> : j \in { j \in 1..Len(rd[i].value.items) :
                       rd[i].value.items[j].key \in NarrationKeys } }
                 : i \in { i \in 1..Len(rd) :
                       rd[i].key = <<"match">> /\ rd[i].value.kind = "dict" } }

NarrationPatternsOf(rd) ==
    UNION { DeclaredPatterns(IF d[2] = 0 THEN rd[d[1]].value
                             ELSE rd[d[1]].value.items[d[2]].value)
            : d \in NarrationDirectives(rd) }

\* C8: several match directives of one mapping resolving to the same
\* (scope, field, meta_key), given as flat keys, list values or a nested
\* match mapping, compile to exactly one Match Rule for it whose regexes are
\* the union of all declared patterns.
C8_SameTripleCollapses ==
    (/\ pc # "start"
     /\ \A i \in 1..Len(rule_dict) : rule_dict[i].key[1] = "match"
     /\ Cardinality(NarrationDirectives(rule_dict)) >= 2) =>
        /\ rule_obj.ok
        /\ Len(rule_obj.match_requirements) = 1
        /\ LET m == rule_obj.match_requirements[1] IN
           /\ m.directive = "transaction" /\ m.parameter = "narration"
           /\ { reg.pattern : reg \in m.regular_expressions } =
                  NarrationPatternsOf(rule_dict)

\* the entries that differ from e only in the letter case of the narration
CaseVariants(e) ==
    { [e EXCEPT !.narration = n] :
        n \in { n \in Narrations : LowerStr(n) = LowerStr(e.narration) } }

\* C10: patterns are compiled case-insensitively: when check returns a
\* capture dict for an entry, it returns one for the same entry with the
\* narration in another letter case.
C10_CaseInsensitive ==
    (pc = "checked" /\ check_result.kind = "dict") =>
        \A e2 \in CaseVariants(tx_entry) :
            \E r \in check(rule_obj.match_requirements, e2, 1, <<>>) :
                r.kind = "dict"

\* the entry lacks the value a Match Rule reads: no posting flagged '!' for
\* a posting-scope rule, or no such key in the metadata for a meta rule
MissingValue(m, e) ==
    \/ m.directive = "posting" /\ FirstPending(e.postings, 1) = 0
    \/ m.directive = "transaction" /\ m.parameter = "meta"
         /\ m.meta_key \notin DOMAIN e.meta

\* C11: match-time data errors are 'no match', never a raised fault: check
\* returns None when a meta Match Rule meets an entry without the meta key
\* or a posting-scope Match Rule meets an entry with no posting flagged '!'.
C11_MissingDataIsNoMatch ==
    (/\ pc = "checked"
     /\ \E i \in 1..Len(rule_obj.match_requirements) :
            MissingValue(rule_obj.match_requirements[i], tx_entry)) =>
        check_result = NoMatch

\* C16: extend(other) with a Match Rule whose directive, parameter or
\* meta_key differs from the receiver's raises an assertion error and leaves
\* the receiver's regex set unchanged; with a Match Rule equal to the
\* receiver it leaves the receiver equal to what it was.
C16_ExtendAssertsSameKey ==
    [][ pc' = "extended" =>
          LET i == ext_call'.i
              other == ext_call'.other
              before == rule_obj.match_requirements[i]
              after == rule_obj'.match_requirements[i]
          IN  /\ (\/ other.directive # before.directive
                  \/ other.parameter # before.parameter
                  \/ other.meta_key # before.meta_key) =>
                     /\ ext_call'.raised
                     /\ after.regular_expressions = before.regular_expressions
              /\ other = before => (~ext_call'.raised /\ after = before) ]_vars

\* C16 witness: extend was called with a Match Rule for another field whose
\* regexes the receiver does not hold, and raised.
C16_Witness ==
    /\ pc = "extended"
    /\ ext_call.raised
    /\ ext_call.other.parameter # rule_obj.match_requirements[ext_call.i].parameter
    /\ ~(ext_call.other.regular_expressions \subseteq
           rule_obj.match_requirements[ext_call.i].regular_expressions)

\* C14: modify_entry never mutates the entry it is given: its scalar fields,
\* postings and metadata mapping are after the call what they were before,
\* for every rule and every capture dict.
C14_InputEntryUntouched ==
    [][ pc' = "modified" => tx_entry' = tx_entry ]_vars

\* the posting-scope Set Rules of a rule that set the account
PostingAccountRules(srs) ==
    { k \in 1..Len(srs) : srs[k].directive = "posting" /\ srs[k].parameter = "account" }

\* C20: pending postings are promoted only after every Set Rule has been
\* applied, so each posting-scope Set Rule takes effect on the pending
\* posting: after several Set Rules for the posting's account, the posting
\* carries the account of the last one.
C20_EveryPostingRuleApplies ==
    LET srs == rule_obj.set_rules
        idx == PostingAccountRules(srs)
    IN  (pc = "modified" /\ idx # {}) =>
            LET last == CHOOSE k \in idx : \A j \in idx : j <= k IN
            /\ ~result.raised
            /\ \A i \in 1..Len(tx_entry.postings) :
                   tx_entry.postings[i].flag = "!" =>
                       result.entry.postings[i] =
                           Posting(Chars(srs[last].value.s[1]), "*")

(***************************************************************************)
(* Properties of match_directives                                          *)
(***************************************************************************)
\* C13: a Rule with zero Match Rules matches everything: check returns the
\* empty dict, not None, for any entry, and the rule loop of match_directives
\* takes the empty dict as a match and applies the rule's Set Rules
C13_EmptyRuleMatchesAll ==
    [][ /\ (pc = "compiled" /\ pc' = "checked"
              /\ Len(rule_obj.match_requirements) = 0)
           => check_result' = Captures(<<>>)
        /\ (md_pc = "rules" /\ md_cur.j <= Len(md_rules)
              /\ Len(md_rules[md_cur.j].match_requirements) = 0)
           => LET m == modify_entry(md_rules[md_cur.j].set_rules, md_cur.entry, <<>>)
              IN  IF m.raised THEN md_pc' = "raised"
                  ELSE /\ md_cur'.entry = m.entry
                       /\ md_cur'.modified
                       /\ md_cur'.j = md_cur.j + 1 ]_vars

\* a rule without Match Rules came first in the rules file and its Set Rule
\* has written the payee of a pending entry
C13_Witness ==
    /\ md_pc = "rules"
    /\ md_cur.j = 2
    /\ Len(md_rules[1].match_requirements) = 0
    /\ md_cur.modified
    /\ md_cur.entry.payee = <<"Q">>
    /\ md_entries[md_i].payee = NoStr

\* the ledger holds a confirmed entry with a match-narration metadata key
\* and, after it, a pending entry whose narration that pattern matches
EmbeddedRuleCase ==
    \E i, k \in 1..Len(md_entries) :
        /\ i < k
        /\ md_entries[i].flag = "*"
        /\ <<"match-narration">> \in DOMAIN md_entries[i].meta
        /\ md_entries[k].flag = "!"
        /\ re_match(re_compile(Pattern(md_entries[i].meta[<<"match-narration">>],
                                       None, TRUE)),
                    md_entries[k].narration)

\* C15: match_directives uses the rules embedded in entry metadata: given a
\* confirmed entry that carries match-narration and a later pending entry
\* whose narration matches it, every returned entry has flag '*'
C15_EmbeddedRulesPromote ==
    (md_pc = "done" /\ EmbeddedRuleCase)
        => \A n \in 1..Len(new_entries) : new_entries[n].flag = "*"

\* the entry after the first n rules of the file, each checked against the
\* entry as the earlier ones left it and applied when its check was not None
RECURSIVE Rewritten(_, _, _)
Rewritten(rules, entry, n) ==
    IF n = 0 THEN entry
    ELSE LET e == Rewritten(rules, entry, n - 1)
             match_values == CHOOSE o \in check(rules[n].match_requirements, e, 1, <<>>) : TRUE
         IN  IF match_values.kind = "dict"
             THEN modify_entry(rules[n].set_rules, e, match_values.captures).entry
             ELSE e

\* C19: within one match_directives pass every rule is checked, in file
\* order, against the entry as rewritten by the earlier matching rules, and
\* every rule whose check is not None is applied; entries whose flag is not
\* '!' are passed through unchanged and in their original position
C19_RulesApplyCumulatively ==
    /\ md_pc # "raised"
    /\ md_pc = "rules"
         => md_cur.entry = Rewritten(md_rules, md_entries[md_i], md_cur.j - 1)
    /\ md_pc \in {"loop", "rules", "done"}
         => \A k \in 1..Len(new_entries) :
                new_entries[k] = IF md_entries[k].flag # "!" THEN md_entries[k]
                                 ELSE Rewritten(md_rules, md_entries[k], Len(md_rules))
    /\ md_pc = "done" => Len(new_entries) = Len(md_entries)

(***************************************************************************)
(* Properties of sorted_entries                                            *)
(***************************************************************************)
\* the key the order is stated in: by-date (global-sort hint, date, sort
\* hint, type precedence, account path, negative absolute price, text) or
\* by-account (global-sort hint, account path, date, sort hint, type
\* precedence, negative absolute price, text), missing hints counting as 100
StatedKey(e, method) ==
    LET path == AccountSplit(e.account.account)
        gs == <<IF e.global_sort = <<>> THEN 100 ELSE e.global_sort[1]>>
        st == <<IF e.sort = <<>> THEN 100 ELSE e.sort[1]>>
        acct == [i \in 1..Len(path) |-> StrOrd(path[i])]
        amount == <<IF e.price = <<>> THEN 0 ELSE 0 - Abs(e.price[1])>>
        tp == <<SORT_ORDER(e.type)>>
    IN  IF method = "date"
        THEN <<gs, <<e.date>>, st, tp, acct, amount, <<StrOrd(e.text)>> >>
        ELSE <<gs, acct, <<e.date>>, st, tp, amount, <<StrOrd(e.text)>> >>

\* C12: sorted_entries yields the working collection in non-decreasing
\* lexicographic order of the key of the configured sort method; with equal
\* hints, date, type, account and price, "Apple" comes before "Zebra"
C12_YieldedInKeyOrder ==
    [][ yielded' # yielded =>
          /\ ~yielded'.raised
          /\ Len(yielded'.entries) = Len(entries)
          /\ \A i \in 1..Len(entries) : InList(entries[i], yielded'.entries)
          /\ \A i \in 1..(Len(yielded'.entries) - 1) :
                 ~TupleLess(StatedKey(yielded'.entries[i + 1], sort_method),
                            StatedKey(yielded'.entries[i], sort_method)) ]_vars

(***************************************************************************)
(* Properties of the rule compiler: key grammar                            *)
(***************************************************************************)
\* the scope the grammar infers from a field
InferredScope(field) ==
    IF field \in {"narration", "payee", "tags", "links", "meta", "flag", "date"}
    THEN "transaction"
    ELSE IF field = "account" THEN "posting"
    ELSE None

\* the scope a word of a key names
ScopeOf(w) == IF w \in {"tx", "transaction"} THEN "transaction" ELSE "posting"

\* [<scope>-]<field>[-<meta_key>]: a known field, an explicit scope that
\* agrees with the inferred one, a meta-key suffix exactly for field meta
FieldPart(words) ==
    LET scoped == Len(words) > 0 /\ words[1] \in Scopes
        rest == IF scoped THEN Tail(words) ELSE words
    IN  /\ Len(rest) > 0
        /\ InferredScope(rest[1]) # None
        /\ scoped => ScopeOf(words[1]) = InferredScope(rest[1])
        /\ IF rest[1] = "meta" THEN Len(rest) > 1 ELSE Len(rest) = 1

\* a key of the mapping that follows the grammar: the reserved match-key,
\* <command>[-<scope>]-<field>[-<meta_key>], a bare match/set whose value is
\* a mapping of [<scope>-]<field>[-<meta_key>] keys, or a bare test
FollowsGrammar(item) ==
    \/ item.key = <<"match", "key">>
    \/ /\ item.key[1] \in Commands
       /\ item.value.kind # "dict"
       /\ FieldPart(Tail(item.key))
    \/ /\ item.key \in { <<"match">>, <<"set">> }
       /\ item.value.kind = "dict"
       /\ \A i \in 1..Len(item.value.items) : FieldPart(item.value.items[i].key)
    \/ item.key = <<"test">>

\* C21: Rule(mapping) compiles without error exactly when every key follows
\* the key grammar; any other key makes construction raise and no Rule is
\* produced
C21_CompilesIffGrammatical ==
    pc # "start" =>
        (rule_obj.ok <=> \A i \in 1..Len(rule_dict) : FollowsGrammar(rule_dict[i]))

(***************************************************************************)
(* Properties of Rule.modify_entry: tags and links                         *)
(***************************************************************************)
\* the transaction-scope Set Rules on tags or links without a meta_key
TagRules(srs) ==
    { i \in 1..Len(srs) : /\ srs[i].directive = "transaction"
                          /\ srs[i].parameter \in {"tags", "links"}
                          /\ srs[i].meta_key = <<>> }

\* the tags or links of an entry, by field name
TagField(entry, parameter) == IF parameter = "tags" THEN entry.tags ELSE entry.links

\* C22: a transaction-scope Set Rule on tags or links unions its value into
\* the entry's set: after modify_entry every tag/link the entry had before is
\* still present, plus the rule's value
C22_TagsAreUnioned ==
    (pc = "modified" /\ ~result.raised) =>
        \A i \in TagRules(rule_obj.set_rules) :
            LET sr == rule_obj.set_rules[i]
                after == TagField(result.entry, sr.parameter)
            IN  /\ after.kind = "set"
                /\ TagField(tx_entry, sr.parameter).items \subseteq after.items
                /\ Chars(sr.value.s[1]) \in after.items

(***************************************************************************)
(* Properties of the rule compiler: set_rules                              *)
(***************************************************************************)
\* the field a key names, behind an optional scope
FieldOf(words) == IF words[1] \in Scopes THEN words[2] ELSE words[1]

\* the set directives of a mapping, in mapping order: a flat set-... key, or
\* every field of a nested 'set' mapping
RECURSIVE SetDirectives(_, _)
SetDirectives(rule, i) ==
    IF i > Len(rule) THEN <<>>
    ELSE LET item == rule[i]
             here == IF item.key[1] # "set" THEN <<>>
                     ELSE IF item.value.kind = "dict"
                     THEN [j \in 1..Len(item.value.items) |->
                             [parameter |-> FieldOf(item.value.items[j].key),
                              value |-> item.value.items[j].value]]
                     ELSE << [parameter |-> FieldOf(Tail(item.key)),
                              value |-> item.value] >>
         IN  here \o SetDirectives(rule, i + 1)

\* C30: the set_rules of a compiled Rule hold one Set Rule for every set
\* directive of the mapping, in mapping order, whatever other keys (match,
\* test, match-key) the mapping has and wherever they stand
C30_OneSetRulePerDirective ==
    (pc # "start" /\ rule_obj.ok) =>
        LET want == SetDirectives(rule_dict, 1)
            srs == rule_obj.set_rules
        IN  /\ Len(srs) = Len(want)
            /\ \A i \in 1..Len(srs) :
                   /\ srs[i].parameter = want[i].parameter
                   /\ srs[i].value = want[i].value

(***************************************************************************)
(* Properties of the filing account                                        *)
(***************************************************************************)
\* the account name the '_account' tag is stated to hold: the account of the
\* first Assets/Liabilities posting of a transaction, else the entry's own
\* account attribute, else 'other'
StatedAccount(e) ==
    LET i == IF e.type = "Transaction"
             THEN FirstBalanceSheetPosting(e.postings, 1) ELSE 0
    IN  IF i > 0 THEN e.postings[i]
        ELSE IF e.type \in {"Note", "Open", "Document"} THEN EntryAccount
        ELSE "other"

\* C23: the '_account' tag that safe_add_entry attaches is always an
\* account-name string: the first Assets/Liabilities posting's account, else
\* the entry's own account attribute, else the literal 'other'
C23_AccountTagIsName ==
    \A i \in 1..Len(entries) :
        /\ entries[i].account.is_str
        /\ entries[i].account.account = StatedAccount(entries[i])

(***************************************************************************)
(* Properties of the fold-injecting stream                                 *)
(***************************************************************************)
\* the date of the last dated content among the first n writes
RECURSIVE PreviousDate(_, _)
PreviousDate(ws, n) ==
    IF n = 0 THEN NoDate
    ELSE IF ws[n].dated THEN ws[n].date
    ELSE PreviousDate(ws, n - 1)

\* what the stream is stated to receive for the first n writes: a month
\* header before the first dated entry and whenever year or month differ
\* from the previous dated entry's, then a day header before the first dated
\* entry and whenever the date differs, then the content
RECURSIVE StatedStream(_, _)
StatedStream(ws, n) ==
    IF n = 0 THEN <<>>
    ELSE LET c == ws[n]
             prev == PreviousDate(ws, n - 1)
             month == c.dated /\ (prev = NoDate \/ c.date.year # prev.year
                                  \/ c.date.month # prev.month)
             day == c.dated /\ (prev = NoDate \/ c.date # prev)
         IN  StatedStream(ws, n - 1)
             \o (IF month THEN <<Chunk("month", Date(c.date.year, c.date.month, 0), FALSE)>>
                 ELSE <<>>)
             \o (IF day THEN <<Chunk("day", c.date, FALSE)>> ELSE <<>>)
             \o <<Chunk("content", c.date, FALSE)>>

\* C27: a month header is written before an entry exactly when it is the
\* first dated entry or its year and month differ from the previous dated
\* entry's, a day header exactly when it is the first dated entry or its date
\* differs; the month header comes first and the content follows (compared
\* up to whitespace before line ends)
C27_HeadersAtDateChanges ==
    [i \in 1..Len(stream) |-> [stream[i] EXCEPT !.trailing = FALSE]]
        = StatedStream(writes, Len(writes))

(***************************************************************************)
(* Properties of save_entries                                              *)
(***************************************************************************)
\* C24: in both output modes of save_entries no entry handed to the printer
\* still carries the '_account' key in its metadata
C24_PrintedWithoutAccountTag ==
    \A i \in 1..Len(saved.printed) : saved.printed[i].entry.account = NoAccount

\* C28: in per-account mode every file stream that save_entries opens is
\* closed by the time it returns or raises, also when printing one of the
\* entries fails partway through
C28_StreamsClosed ==
    (saved.ran /\ split_type = "account") => saved.open = {}

(***************************************************************************)
(* Secondary match-keys                                                    *)
(***************************************************************************)
\* the call just made added e: its primary match-key was already in the
\* duplicate index, held by another entry, and it carries a match-key-1
PrimaryCollides(e) ==
    /\ e.mk # None /\ e.mk1 # None
    /\ ExplicitKey(e.mk) \in DOMAIN duplicates
    /\ duplicates[ExplicitKey(e.mk)].id # e.id

\* C25: when the primary match-key of an incoming entry is already in the
\* duplicate index and held by a different entry, its secondary key
\* match-key-1 is consulted as well: after the call the index knows that
\* key, so the entry has claimed its alias.
C25_SecondaryKeysConsulted ==
    [][ Len(input') > Len(input) =>
          LET e == input'[Len(input')] IN
          PrimaryCollides(e) => ExplicitKey(e.mk1) \in DOMAIN duplicates' ]_vars

(***************************************************************************)
(* Derived match-keys                                                      *)
(***************************************************************************)
\* the two loaded entries are accepted, carry no match-key metadata and
\* render to the same text
TwoRenderAlike ==
    /\ Len(input) = 2
    /\ Accepted(input[1]) /\ Accepted(input[2])
    /\ KeysOf(input[1]) = {} /\ KeysOf(input[2]) = {}
    /\ format_entry(input[1]) = format_entry(input[2])

\* C26: two entries without match-key metadata whose rendered text is the
\* same collide on the derived match-key: after both were added, the
\* working collection holds one entry.
C26_RenderedTextCollides ==
    TwoRenderAlike => Len(entries) = 1

(***************************************************************************)
(* Re-processing                                                           *)
(***************************************************************************)
\* C29: match_directives run with the same rules on the list it returned
\* returns that list again, entry for entry: no Set Rule takes further
\* effect on an entry an earlier pass rewrote.
C29_SecondPassSameList ==
    (md_pc = "done" /\ md_first.pass = 2) => new_entries = md_first.entries

====
